---- MODULE Spec2Model ----
(***************************************************************************)
(* Model of the wa-cloud bridge: one chat-platform client (whatsapp-web.js)*)
(* behind a socket.io server, and the React viewers connected to it.       *)
(*                                                                         *)
(* The repository holds three snapshots of the server (src/server.js,      *)
(* src/unnamed/part_003, src/unnamed/part_004) and two snapshots of the    *)
(* viewer page (src/src/app/page.tsx, src/unnamed/part_000).  A run has    *)
(* one server snapshot and one viewer snapshot; which ones is fixed in the *)
(* initial state (variables server and ui).                                *)
(***************************************************************************)
EXTENDS Integers, Sequences, FiniteSets, Bags, TLC

(***************************************************************************)
(* Bounds of the model.                                                    *)
(***************************************************************************)
MaxMsgs == 2        \* platform 'message' events in one run
MaxSends == 1       \* outbound sends in one run
MaxSelects == 1     \* chats selected from the list in one run of SpecChat
MaxSendSelects == 2 \* chats selected from the list in one run of SpecSend
MaxQr == 1          \* platform 'qr' events in one run
MaxFails == 1       \* awaited platform calls that reject in one run
MaxConnects == 1    \* viewer connections in one run of Spec
MaxCount == 2       \* the highest unread count in a run of SpecUnread
MaxSubs == 2        \* entries of the push registry in one run
MaxPushMsgs == 1    \* platform 'message' events in one run of SpecPush
MaxDisconnects == 1 \* platform 'disconnected' events in one run
MaxAcks == 1        \* platform 'message_ack' events in one run
MaxHistory == 51    \* messages of the longest chat in a run of SpecHistory
MaxSessions == 2    \* viewer connections in one run of SpecSession

Viewers == {"v1", "v2"}
Actors == {"v1"}    \* the viewers whose user clicks (selects a chat, sends)
Gone == "gone"      \* the sockets that were closed
Sockets == Viewers \cup {Gone}
Chats == {"c1", "c2"}
Me == "me"          \* the address of the authenticated account
NoChat == "none"    \* selectedChat === null

Servers == {"server.js", "part_003", "part_004"}
PushServers == {"server.js", "part_004"}   \* part_003 has no push dispatcher
Subs == {"s1", "s2"}                       \* push subscription descriptors
Pages == {"page.tsx", "part_000"}

VARIABLES
    server,          \* which server snapshot runs
    ui,              \* which viewer snapshot runs
    pupPage,         \* client.pupPage is set (the platform client has started)
    waState,         \* what client.getState() answers
    waChats,         \* what client.getChats() answers
    waHistory,       \* per chat, what chat.fetchMessages() answers from
    onceReady,       \* per viewer, number of client.once('ready') listeners
    tasks,           \* bag of suspended async handlers (each at an await)
    inbox,           \* per viewer, events sent to its socket and not yet handled
    connected,       \* per viewer, socket connected
    isReady, qrCode, hasError,
    chats, selectedChat, selectedChatRef, messages, msgKeys, unreadCounts,
    effectPending,   \* per viewer, a commit whose passive effects have not run
    n,               \* what is left of the bounds of the run
    sentTo,          \* per viewer, number of message_sent events sent to it
    logs,            \* per viewer, number of lone 'log' events sent to it
    lastUnread,      \* per viewer, the last two unread-counter operations
    seen,            \* per viewer, what its session bootstrap has shown so far
    subscriptions,   \* the server's registry of push subscriptions
    pushes,          \* the push deliveries started so far, each with its state
    console,         \* what the server has written with console.error
    timer            \* per viewer, the state of its loading timeout

platformVars == <<pupPage, waState, waChats, waHistory>>
sessionVars == <<isReady, qrCode, hasError, chats>>
chatVars == <<selectedChat, selectedChatRef, messages, msgKeys, unreadCounts,
              effectPending, lastUnread>>
viewVars == <<sessionVars, chatVars>>
configVars == <<server, ui>>
auxVars == <<sentTo, logs, seen>>
pushVars == <<subscriptions, pushes>>

vars == <<configVars, platformVars, onceReady, tasks, inbox, connected,
          viewVars, n, auxVars, pushVars, console, timer>>

(***************************************************************************)
(* Helpers                                                                 *)
(***************************************************************************)
\* a reply sent with io.emit instead of socket.emit
EmitTo_All(box, v, ev) ==
    [w \in Viewers |-> IF connected[w] THEN Append(box[w], ev) ELSE box[w]]

\* socket.emit(ev) from a resumed handler: dropped when the socket is gone
EmitTo(box, v, ev) ==
    IF v \in Viewers /\ connected[v] THEN [box EXCEPT ![v] = Append(@, ev)]
    ELSE box

\* io.emit(ev) : to every connected socket
EmitAll(box, evs) ==
    [v \in Viewers |-> IF connected[v] THEN box[v] \o evs ELSE box[v]]

\* a lone socket.emit('log', ...): the viewer's handler only adds a log line
LogTo(v) ==
    IF v \in Viewers /\ connected[v] THEN [logs EXCEPT ![v] = @ + 1] ELSE logs

DelTask(t) == tasks (-) SetToBag({t})

\* an awaited platform call resolves (ok) or rejects
Outcome(ok) ==
    /\ ok \/ n.fail > 0
    /\ n' = IF ok THEN n ELSE [n EXCEPT !.fail = @ - 1]

\* the payload of the next qr event, the id of the next platform message and
\* the text of the next send: fresh values
QrPayload == MaxQr - n.qr + 1
NextMsgId == Len(waHistory["c1"]) + Len(waHistory["c2"]) + 1
NextBody == MaxSends - n.send + 1

\* chats.map(chat => ({ id, name, isGroup })) : the list of chat ids
ChatList(list) == list

\* the message object the server sends for a platform message
Formatted(msg, media) ==
    [id |-> msg.id, from |-> msg.from, to |-> msg.to, body |-> msg.body,
     fromMe |-> msg.fromMe, ack |-> msg.ack, media |-> media]

SessionExists(b, log) == [type |-> "session_exists", exists |-> b, log |-> log]
ChatsEv(list, log) == [type |-> "chats", list |-> list, log |-> log]
MessagesEv(chatId, list) ==
    [type |-> "messages", chatId |-> chatId, messages |-> list]

\* an event that the handler follows with socket.emit('log', ...) carries
\* log = TRUE; only part_003 sends these diagnostics
WithLog == server = "part_003"

\* lastUnread: the last operation (op, chat), the one before it (pop, pchat)
\* and the count that one found (pcount)
NoUnreadOp ==
    [op |-> "none", chat |-> NoChat, count |-> 0,
     pop |-> "none", pchat |-> NoChat, pcount |-> 0]
UnreadOp(last, op, chatId, count) ==
    [op |-> op, chat |-> chatId, count |-> count,
     pop |-> last.op, pchat |-> last.chat, pcount |-> last.count]

\* seen: joinedReady   the viewer connected while client.getState() was CONNECTED
\*       csConnected   its check-session found the state CONNECTED
\*       sessionTrue   it has handled session_exists = true
\*       qr            it has handled a qr event
\*       chatsEarly    it handled a chats event before any session_exists = true
\*       chatsEmpty    it has handled a chats event with an empty list
\*       chatsAfter    it handled a non-empty chats event after session_exists = true
\*       ready         it has handled a ready event
NothingSeen ==
    [joinedReady |-> FALSE, csConnected |-> FALSE, sessionTrue |-> FALSE,
     qr |-> FALSE, chatsEarly |-> FALSE, chatsEmpty |-> FALSE,
     chatsAfter |-> FALSE, ready |-> FALSE]

\* what handling ev adds to seen
Sees(sn, ev) ==
    CASE ev.type = "qr" -> [sn EXCEPT !.qr = TRUE]
      [] ev.type = "ready" -> [sn EXCEPT !.ready = TRUE]
      [] ev.type = "session_exists" /\ ev.exists -> [sn EXCEPT !.sessionTrue = TRUE]
      [] ev.type = "chats" ->
           [sn EXCEPT !.chatsEarly = @ \/ ~sn.sessionTrue,
                      !.chatsEmpty = @ \/ ev.list = <<>>,
                      !.chatsAfter = @ \/ (sn.sessionTrue /\ ev.list # <<>>)]
      [] OTHER -> sn

\* the registry is empty and no delivery was started; nothing was written
\* with console.error
NoPush == subscriptions = <<>> /\ pushes = {}
NoConsole == console = {}

\* loadingTimeoutRef of page.tsx: "none" (no timeout was set: the page is not
\* loaded, or it is part_000, which sets none), "armed", "cleared" (by
\* clearTimeout before it fired) or "fired"
SetTimeout == IF ui = "page.tsx" THEN "armed" ELSE "none"
ClearTimeout(tm) == IF tm = "armed" THEN "cleared" ELSE tm

\* a page on which every event from the server cancels the loading timeout
ClearsTimer_AnyEvent(ev) == TRUE

\* listeners of which the one of 'qr' forgets clearTimeout
ClearsTimer_NotOnQr(ev) ==
    \/ ev.type \in {"ready", "authenticated"}
    \/ ev.type = "session_exists" /\ ev.exists

\* the events whose listener calls clearTimeout(loadingTimeoutRef.current)
ClearsTimer(ev) ==
    \/ ev.type \in {"qr", "ready", "authenticated"}
    \/ ev.type = "session_exists" /\ ev.exists

\* the timers once the viewers of conn have handled 'ready'
TimersAfterReady(conn) ==
    [v \in Viewers |-> IF v \in conn THEN ClearTimeout(SetTimeout) ELSE "none"]

NoViewState ==
    /\ selectedChat = [v \in Viewers |-> NoChat]
    /\ selectedChatRef = [v \in Viewers |-> NoChat]
    /\ messages = [v \in Viewers |-> [c \in Chats |-> <<>>]]
    /\ msgKeys = [v \in Viewers |-> {}]
    /\ unreadCounts = [v \in Viewers |-> [c \in Chats |-> 0]]
    /\ effectPending = [v \in Viewers |-> FALSE]
    /\ lastUnread = [v \in Viewers |-> NoUnreadOp]
    /\ qrCode = [v \in Viewers |-> 0]
    /\ hasError = [v \in Viewers |-> FALSE]

Init ==
    /\ server \in Servers
    /\ ui \in Pages
    /\ pupPage = FALSE
    /\ waState = "OPENING"
    /\ waChats = <<"c1", "c2">>
    /\ waHistory = [c \in Chats |-> <<>>]
    /\ onceReady = [v \in Sockets |-> 0]
    /\ tasks = EmptyBag
    /\ inbox = [v \in Viewers |-> <<>>]
    /\ connected = [v \in Viewers |-> FALSE]
    /\ isReady = [v \in Viewers |-> FALSE]
    /\ chats = [v \in Viewers |-> <<>>]
    /\ NoViewState
    /\ n = [msg |-> 0, send |-> 0, sel |-> 0, qr |-> MaxQr, fail |-> MaxFails,
            conn |-> MaxConnects, disc |-> 0, ack |-> 0]
    /\ sentTo = [v \in Viewers |-> 0]
    /\ logs = [v \in Viewers |-> 0]
    /\ seen = [v \in Viewers |-> NothingSeen]
    /\ NoPush /\ NoConsole
    /\ timer = [v \in Viewers |-> "none"]

(***************************************************************************)
(* Platform client events and the server's handlers for them               *)
(***************************************************************************)

\* client.initialize() : the browser page of the platform client exists
ClientInitialize ==
    /\ ~pupPage
    /\ pupPage' = TRUE
    /\ UNCHANGED <<waState, waChats, waHistory, onceReady, tasks, inbox,
                   connected, viewVars, n, auxVars, configVars,
                   pushVars, console, timer>>

\* client.on('qr', qr => io.emit('qr', qr))
ClientOnQr ==
    /\ pupPage /\ waState # "CONNECTED" /\ n.qr > 0
    /\ n' = [n EXCEPT !.qr = @ - 1]
    /\ waState' = "UNPAIRED"
    /\ inbox' = EmitAll(inbox, <<[type |-> "qr", qr |-> QrPayload]>>)
    /\ UNCHANGED <<pupPage, waChats, waHistory, onceReady, tasks, connected,
                   viewVars, auxVars, configVars,
                   pushVars, console, timer>>

\* 'ready' listeners that answer every socket that asked, whichever socket
\* registered them
OnceReadyEvents_All(v) ==
    [i \in 1..(onceReady["v1"] + onceReady["v2"] + onceReady[Gone]) |->
        SessionExists(TRUE, FALSE)]

\* the client.once('ready') listeners registered by check-session; they run
\* after the client.on('ready') listener, which was registered first
OnceReadyEvents(v) ==
    [i \in 1..onceReady[v] |-> SessionExists(TRUE, FALSE)]

\* client.on('ready') : io.emit('ready'), then await client.getChats()
ClientOnReady ==
    /\ pupPage /\ waState # "CONNECTED"
    /\ waState' = "CONNECTED"
    /\ inbox' = [v \in Viewers |->
                   IF connected[v]
                   THEN inbox[v] \o <<[type |-> "ready"]>> \o OnceReadyEvents(v)
                   ELSE inbox[v]]
    /\ onceReady' = [v \in Sockets |-> 0]
    /\ tasks' = tasks (+) SetToBag({[kind |-> "ready", stage |-> "getChats"]})
    /\ UNCHANGED <<pupPage, waChats, waHistory, connected, viewVars, n,
                   auxVars, configVars,
                   pushVars, console, timer>>

\* ... const chats = await client.getChats(); io.emit('chats', ...)
ReadyGetChatsDone(ok) ==
    LET t == [kind |-> "ready", stage |-> "getChats"] IN
    /\ BagIn(t, tasks)
    /\ Outcome(ok)
    /\ tasks' = DelTask(t)
    /\ inbox' = IF ok THEN EmitAll(inbox, <<ChatsEv(ChatList(waChats), FALSE)>>)
                ELSE inbox
    /\ UNCHANGED <<platformVars, onceReady, connected, viewVars, auxVars,
                   configVars,
                   pushVars, console, timer>>

\* client.on('authenticated'), client.on('auth_failure') and
\* client.on('disconnected') of part_003 and part_004, and the .catch of
\* client.initialize(): each writes one line to the console and does nothing
\* else.  server.js registers no listener for the three events: there they
\* pass unnoticed.
ConsoleLine(kind) ==
    IF server = "server.js" /\ kind # "fatal" THEN console
    ELSE console \cup {kind}

\* client.initialize() rejects (the browser cannot be started)
ClientInitializeFails ==
    /\ ~pupPage /\ "fatal" \notin console
    /\ console' = ConsoleLine("fatal")
    /\ UNCHANGED <<platformVars, onceReady, tasks, inbox, connected, viewVars,
                   n, auxVars, configVars, pushVars, timer>>

\* the platform rejects the stored credentials
ClientOnAuthFailure ==
    /\ pupPage /\ waState # "CONNECTED" /\ server # "server.js"
    /\ "auth_failure" \notin console
    /\ console' = ConsoleLine("auth_failure")
    /\ UNCHANGED <<platformVars, onceReady, tasks, inbox, connected, viewVars,
                   n, auxVars, configVars, pushVars, timer>>

\* the account is logged out while the client is ready
ClientOnDisconnected ==
    /\ pupPage /\ waState = "CONNECTED" /\ n.disc > 0
    /\ n' = [n EXCEPT !.disc = @ - 1]
    /\ console' = ConsoleLine("disconnected")
    /\ waState' = "UNPAIRED"
    /\ UNCHANGED <<pupPage, waChats, waHistory, onceReady, tasks, inbox,
                   connected, viewVars, auxVars, configVars, pushVars, timer>>

\* the platform message of a 'message' event
NewMsg(c, fromMe, hasMedia) ==
    [id |-> <<"wa", NextMsgId>>,
     from |-> IF fromMe THEN Me ELSE c,
     to |-> IF fromMe THEN c ELSE Me,
     body |-> 0, fromMe |-> fromMe, ack |-> 0, hasMedia |-> hasMedia]

\* a 'message' listener that waits for the push deliveries before io.emit
AwaitsMedia_WhenPushing(msg) == subscriptions # <<>>

\* whether the 'message' listener awaits msg.downloadMedia() before io.emit
AwaitsMedia(msg) == server = "part_003" /\ msg.hasMedia

\* a dispatcher that gives up after the first subscription of the registry
PushAttempts_FirstOnly(msg) ==
    {[msg |-> msg.id, pos |-> i, sub |-> subscriptions[i], state |-> "pending"] :
       i \in 1..(IF subscriptions = <<>> THEN 0 ELSE 1)}

\* subscriptions.forEach(sub => webpush.sendNotification(sub, payload)
\*                               .catch(err => console.error(err)))
\* the deliveries one platform message starts: one per entry of the registry,
\* each a promise of its own
PushAttempts(msg) ==
    {[msg |-> msg.id, pos |-> i, sub |-> subscriptions[i], state |-> "pending"] :
       i \in 1..Len(subscriptions)}

\* client.on('message') of server.js and part_004: synchronous broadcast;
\* of part_003: `await msg.downloadMedia()` comes before io.emit
ClientOnMessage(c, fromMe, hasMedia) ==
    LET msg == NewMsg(c, fromMe, hasMedia) IN
    /\ pupPage /\ waState = "CONNECTED" /\ n.msg > 0
    /\ n' = [n EXCEPT !.msg = @ - 1]
    /\ waHistory' = [waHistory EXCEPT ![c] = Append(@, msg)]
    /\ IF AwaitsMedia(msg)
       THEN /\ tasks' = tasks (+) SetToBag({[kind |-> "message",
                                  stage |-> "downloadMedia", msg |-> msg]})
            /\ inbox' = inbox
       ELSE /\ tasks' = tasks
            /\ inbox' = EmitAll(inbox, <<[type |-> "message",
                                          msg |-> Formatted(msg, "none")]>>)
    /\ pushes' = pushes \cup (IF server \in PushServers THEN PushAttempts(msg)
                              ELSE {})
    /\ UNCHANGED <<pupPage, waState, waChats, onceReady, connected, viewVars,
                   auxVars, configVars, subscriptions, console, timer>>

\* the levels of a 'message_ack' event: 1 (SENT), 2 (DELIVERED), 3 (READ)
AckLevels == {1, 2, 3}

\* an ack listener that also sends the message again
AckEvents_WithMessage(msg, ack) ==
    <<[type |-> "message_ack_update", msgId |-> msg.id, chatId |-> msg.to,
       ack |-> ack],
      [type |-> "message", msg |-> Formatted([msg EXCEPT !.ack = ack], "none")]>>

\* what the 'message_ack' listener broadcasts
AckEvents(msg, ack) ==
    <<[type |-> "message_ack_update", msgId |-> msg.id, chatId |-> msg.to,
       ack |-> ack]>>

\* client.on('message_ack', (msg, ack)) : the ack level of the i-th message
\* of chat c, one the account sent, changes to ack
ClientOnMessageAck(c, i, ack) ==
    /\ pupPage /\ waState = "CONNECTED" /\ n.ack > 0
    /\ i \in 1..Len(waHistory[c])
    /\ waHistory[c][i].fromMe /\ waHistory[c][i].ack # ack
    /\ n' = [n EXCEPT !.ack = @ - 1]
    /\ waHistory' = [waHistory EXCEPT ![c][i].ack = ack]
    /\ inbox' = EmitAll(inbox, AckEvents(waHistory[c][i], ack))
    /\ UNCHANGED <<pupPage, waState, waChats, onceReady, tasks, connected,
                   viewVars, auxVars, configVars, pushVars, console, timer>>

\* a dispatcher that takes the subscription of a failed delivery off the
\* registry
PushSettled_Prunes(p, ok) ==
    /\ p \in pushes /\ p.state = "pending"
    /\ pushes' = (pushes \ {p}) \cup
                    {[p EXCEPT !.state = IF ok THEN "sent" ELSE "failed"]}
    /\ console' = IF ok THEN console ELSE console \cup {"push"}
    /\ subscriptions' = IF ok THEN subscriptions
                        ELSE SelectSeq(subscriptions, LAMBDA x : x # p.sub)
    /\ UNCHANGED <<platformVars, onceReady, tasks, inbox, connected, viewVars,
                   n, auxVars, configVars, timer>>

\* a delivery settles: webpush.sendNotification resolves, or rejects and the
\* .catch writes the error to the console
PushSettled(p, ok) ==
    /\ p \in pushes /\ p.state = "pending"
    /\ pushes' = (pushes \ {p}) \cup
                    {[p EXCEPT !.state = IF ok THEN "sent" ELSE "failed"]}
    /\ console' = IF ok THEN console ELSE console \cup {"push"}
    /\ UNCHANGED <<platformVars, onceReady, tasks, inbox, connected, viewVars,
                   n, auxVars, configVars, subscriptions, timer>>

\* socket.on("subscribe") : subscriptions.push(sub) and a 'log' event to the
\* socket that sent it; part_003 has no listener for the command
Subscribe(v, sub) ==
    /\ connected[v] /\ server \in PushServers
    /\ Len(subscriptions) < MaxSubs
    /\ subscriptions' = Append(subscriptions, sub)
    /\ logs' = LogTo(v)
    /\ UNCHANGED <<platformVars, onceReady, tasks, inbox, connected, viewVars,
                   n, sentTo, seen, configVars, pushes, console, timer>>

\* a listener that gives the message up when the download threw
MessageMediaDone_DropsOnFailure(t, ok) ==
    /\ BagIn(t, tasks) /\ t.kind = "message"
    /\ Outcome(ok)
    /\ tasks' = DelTask(t)
    /\ inbox' = IF ok THEN EmitAll(inbox, <<[type |-> "message",
                                             msg |-> Formatted(t.msg, "media")]>>)
              ELSE inbox
    /\ UNCHANGED <<platformVars, onceReady, connected, viewVars, auxVars,
                   configVars, pushVars, console, timer>>

\* part_003: the download settled; media stays null when it threw
MessageMediaDone(t, ok) ==
    /\ BagIn(t, tasks) /\ t.kind = "message"
    /\ Outcome(ok)
    /\ tasks' = DelTask(t)
    /\ inbox' = EmitAll(inbox, <<[type |-> "message",
                   msg |-> Formatted(t.msg, IF ok THEN "media" ELSE "none")]>>)
    /\ UNCHANGED <<platformVars, onceReady, connected, viewVars, auxVars,
                   configVars,
                   pushVars, console, timer>>

(***************************************************************************)
(* Viewer commands: the server's socket handlers.  A command emitted by a  *)
(* viewer starts its handler in the step that emits it (the commands of    *)
(* one socket are handled in emission order); the handler runs up to its   *)
(* first await, where it is suspended as a task.  st = [tasks, inbox].     *)
(***************************************************************************)
\* socket.emit(ev) in the synchronous part of a handler: the socket that
\* sent the command is connected
StEmit(st, v, ev) == [st EXCEPT !.inbox[v] = Append(@, ev)]
StTask(st, t) == [st EXCEPT !.tasks = @ (+) SetToBag({t})]

\* socket.on('check-session') up to its first await
SocketOnCheckSession(st, v) ==
    IF server = "server.js"
    THEN st          \* no listener for this command
    ELSE IF ~pupPage
    THEN \* part_003: explicit guard; part_004: getState() rejects at once
         StEmit(st, v, SessionExists(FALSE, WithLog))
    ELSE StTask(st, [kind |-> "check-session", stage |-> "getState", v |-> v])

\* socket.on('get-chats') up to its first await
SocketOnGetChats(st, v) ==
    IF server = "server.js"
    THEN st          \* no listener for this command
    ELSE IF ~pupPage
    THEN StEmit(st, v, ChatsEv(<<>>, WithLog))
    ELSE StTask(st, [kind |-> "get-chats", v |-> v,
                     stage |-> IF server = "part_003" THEN "getState"
                               ELSE "getChats"])

\* socket.on('send-message') up to `await client.sendMessage(...)`
SocketOnSendMessage(st, v, cmd) ==
    StTask(st, [kind |-> "send-message", stage |-> "sendMessage",
                v |-> v, to |-> cmd.to, body |-> cmd.message])

\* socket.on('get-messages') up to `await client.getChatById(chatId)`
SocketOnGetMessages(st, v, cmd) ==
    StTask(st, [kind |-> "get-messages", stage |-> "fetchMessages",
                v |-> v, chatId |-> cmd.chatId])

ServerRecv(st, v, cmd) ==
    CASE cmd.type = "check-session" -> SocketOnCheckSession(st, v)
      [] cmd.type = "get-chats" -> SocketOnGetChats(st, v)
      [] cmd.type = "send-message" -> SocketOnSendMessage(st, v, cmd)
      [] cmd.type = "get-messages" -> SocketOnGetMessages(st, v, cmd)

RECURSIVE ServerRecvAll(_, _, _)
ServerRecvAll(st, v, cmds) ==
    IF cmds = <<>> THEN st
    ELSE ServerRecvAll(ServerRecv(st, v, Head(cmds)), v, Tail(cmds))

\* check-session after `await client.getState()`
CheckSessionDone(t, ok) ==
    /\ BagIn(t, tasks) /\ t.kind = "check-session"
    /\ Outcome(ok)
    /\ tasks' = DelTask(t)
    /\ IF ok /\ waState = "CONNECTED"
       THEN /\ inbox' = EmitTo(inbox, t.v, SessionExists(TRUE, FALSE))
            /\ seen' = IF t.v \in Viewers
                       THEN [seen EXCEPT ![t.v].csConnected = TRUE] ELSE seen
            /\ UNCHANGED onceReady
       ELSE IF ok
       THEN /\ onceReady' = [onceReady EXCEPT ![t.v] = @ + 1]
            /\ inbox' = EmitTo(inbox, t.v, SessionExists(FALSE, FALSE))
            /\ UNCHANGED seen
       ELSE /\ inbox' = EmitTo(inbox, t.v, SessionExists(FALSE, WithLog))
            /\ UNCHANGED <<onceReady, seen>>
    /\ UNCHANGED <<platformVars, connected, viewVars, sentTo, logs, configVars,
                   pushVars, console, timer>>

\* get-chats of part_003 after `await client.getState()`
GetChatsStateDone(t, ok) ==
    /\ BagIn(t, tasks) /\ t.kind = "get-chats" /\ t.stage = "getState"
    /\ Outcome(ok)
    /\ IF ok /\ waState = "CONNECTED"
       THEN /\ tasks' = DelTask(t) (+) SetToBag({[t EXCEPT !.stage = "getChats"]})
            /\ UNCHANGED inbox
       ELSE /\ tasks' = DelTask(t)
            /\ inbox' = EmitTo(inbox, t.v, ChatsEv(<<>>, TRUE))
    /\ UNCHANGED <<platformVars, onceReady, connected, viewVars, auxVars,
                   configVars,
                   pushVars, console, timer>>

\* get-chats after `await client.getChats()`
GetChatsDone(t, ok) ==
    /\ BagIn(t, tasks) /\ t.kind = "get-chats" /\ t.stage = "getChats"
    /\ Outcome(ok)
    /\ tasks' = DelTask(t)
    /\ inbox' = EmitTo(inbox, t.v,
          IF ok THEN ChatsEv(ChatList(waChats), WithLog)
          ELSE ChatsEv(<<>>, WithLog))
    /\ UNCHANGED <<platformVars, onceReady, connected, viewVars, auxVars,
                   configVars,
                   pushVars, console, timer>>

\* the message client.sendMessage() resolves to
SentMsg(t) ==
    [id |-> <<"sent", t.body>>, from |-> Me, to |-> t.to, body |-> t.body,
     fromMe |-> TRUE, ack |-> 0, hasMedia |-> FALSE]

\* the sockets the confirmation goes to: socket.emit('message_sent', ...)
MessageSentTargets(v) == {v}

\* send-message after `await client.sendMessage(data.to, data.message)`
SendMessageDone(t, ok) ==
    /\ BagIn(t, tasks) /\ t.kind = "send-message"
    /\ Outcome(ok)
    /\ tasks' = DelTask(t)
    /\ IF ok
       THEN LET m == SentMsg(t)
                ev == [type |-> "message_sent",
                       msg |-> [id |-> m.id, from |-> m.from, to |-> m.to,
                                body |-> m.body, fromMe |-> m.fromMe,
                                ack |-> m.ack]]
                tgt == {w \in MessageSentTargets(t.v) \cap Viewers : connected[w]}
            IN /\ inbox' = [w \in Viewers |->
                              IF w \in tgt THEN Append(inbox[w], ev) ELSE inbox[w]]
               /\ sentTo' = [w \in Viewers |->
                              IF w \in tgt THEN sentTo[w] + 1 ELSE sentTo[w]]
               /\ waHistory' = [waHistory EXCEPT ![t.to] = Append(@, m)]
               /\ UNCHANGED logs
       ELSE /\ logs' = LogTo(t.v)
            /\ UNCHANGED <<inbox, sentTo, waHistory>>
    /\ UNCHANGED <<pupPage, waState, waChats, onceReady, connected, viewVars,
                   seen, configVars,
                   pushVars, console, timer>>

\* the limit of chat.fetchMessages({ limit })
FetchLimit == IF server = "server.js" THEN 50 ELSE 20

\* a fetch that ignores the limit
LastN_Unbounded(s, k) == s

\* the last k elements of a sequence
LastN(s, k) == IF Len(s) <= k THEN s ELSE SubSeq(s, Len(s) - k + 1, Len(s))

\* a history fetch that waits until no other call is under way
GetMessagesFetched_Serial(t, ok) ==
    /\ BagIn(t, tasks) /\ t.kind = "get-messages" /\ t.stage = "fetchMessages"
    /\ tasks = SetToBag({t})
    /\ Outcome(ok)
    /\ tasks' = DelTask(t)
    /\ IF ok
       THEN /\ inbox' = EmitTo(inbox, t.v, MessagesEv(t.chatId, <<>>))
            /\ UNCHANGED logs
       ELSE /\ logs' = LogTo(t.v)
            /\ UNCHANGED inbox
    /\ UNCHANGED <<platformVars, onceReady, connected, viewVars, sentTo,
                   seen, configVars, pushVars, console, timer>>

\* get-messages after `await chat.fetchMessages({ limit })`
GetMessagesFetched(t, ok) ==
    /\ BagIn(t, tasks) /\ t.kind = "get-messages" /\ t.stage = "fetchMessages"
    /\ Outcome(ok)
    /\ LET msgs == LastN(waHistory[t.chatId], FetchLimit)
           plain == [i \in 1..Len(msgs) |-> Formatted(msgs[i], "none")]
       IN IF ~ok
          THEN /\ tasks' = DelTask(t)
               /\ logs' = LogTo(t.v)
               /\ UNCHANGED inbox
          ELSE IF server # "server.js" /\ \E i \in 1..Len(msgs) : msgs[i].hasMedia
          THEN /\ tasks' = DelTask(t) (+)
                      SetToBag({[kind |-> "get-messages", stage |-> "downloadMedia",
                                 v |-> t.v, chatId |-> t.chatId, msgs |-> msgs]})
               /\ UNCHANGED <<inbox, logs>>
          ELSE /\ tasks' = DelTask(t)
               /\ inbox' = EmitTo(inbox, t.v, MessagesEv(t.chatId, plain))
               /\ UNCHANGED logs
    /\ UNCHANGED <<platformVars, onceReady, connected, viewVars, sentTo,
                   seen, configVars,
                   pushVars, console, timer>>

\* get-messages after `await Promise.all(messages.map(...downloadMedia...))`;
\* failed: the positions whose download threw (media stays null there)
GetMessagesMediaDone(t, failed) ==
    /\ BagIn(t, tasks) /\ t.kind = "get-messages" /\ t.stage = "downloadMedia"
    /\ failed \subseteq {i \in 1..Len(t.msgs) : t.msgs[i].hasMedia}
    /\ Cardinality(failed) <= n.fail
    /\ n' = [n EXCEPT !.fail = @ - Cardinality(failed)]
    /\ tasks' = DelTask(t)
    /\ inbox' = EmitTo(inbox, t.v, MessagesEv(t.chatId,
          [i \in 1..Len(t.msgs) |->
              Formatted(t.msgs[i],
                        IF t.msgs[i].hasMedia /\ i \notin failed
                        THEN "media" ELSE "none")]))
    /\ UNCHANGED <<platformVars, onceReady, connected, viewVars, auxVars,
                   configVars,
                   pushVars, console, timer>>

(***************************************************************************)
(* The viewer page                                                         *)
(***************************************************************************)
\* a mark-as-read that takes one off the count instead of zeroing it
markChatAsRead_Decrement(prev, chatId) ==
    [prev EXCEPT ![chatId] = IF @ > 0 THEN @ - 1 ELSE 0]

\* markChatAsRead: prev => ({ ...prev, [chatId]: 0 })
markChatAsRead(prev, chatId) == [prev EXCEPT ![chatId] = 0]

\* an increment that counts the message in every chat
incrementUnreadCount_All(prev, chatId) == [c \in DOMAIN prev |-> prev[c] + 1]

\* incrementUnreadCount: prev => ({ ...prev, [chatId]: (prev[chatId] || 0) + 1 })
incrementUnreadCount(prev, chatId) == [prev EXCEPT ![chatId] = @ + 1]

\* a store that puts the new message in front: [newMessage, ...prev[chatId]]
AppendMessage_Prepend(prev, chatId, newMessage) ==
    [prev EXCEPT ![chatId] = <<newMessage>> \o @]

\* prev => ({ ...prev, [chatId]: [...(prev[chatId] || []), newMessage] })
AppendMessage(prev, chatId, newMessage) ==
    [prev EXCEPT ![chatId] = Append(@, newMessage)]

\* const chatId = newMessage.fromMe ? newMessage.to : newMessage.from
Counterpart(newMessage) ==
    IF newMessage.fromMe THEN newMessage.to ELSE newMessage.from

\* the chat a 'message' event is stored under
MessageChatId(v, newMessage) ==
    IF ui = "part_000" /\ selectedChatRef[v] # NoChat
    THEN selectedChatRef[v]      \* "paksa sync ke chat yang lagi dibuka"
    ELSE Counterpart(newMessage)

\* the viewer emits cmds; box0 is what the rest of the step makes of the
\* inboxes
Emit(v, box0, cmds) ==
    LET st == ServerRecvAll([tasks |-> tasks, inbox |-> box0], v, cmds) IN
    /\ tasks' = st.tasks
    /\ inbox' = st.inbox

GetChatsCmd == [type |-> "get-chats"]

\* socket = io(); socket.on('connect') emits check-session and get-chats
Connect(v) ==
    /\ ~connected[v] /\ n.conn > 0
    /\ n' = [n EXCEPT !.conn = @ - 1]
    /\ connected' = [connected EXCEPT ![v] = TRUE]
    /\ seen' = [seen EXCEPT ![v].joinedReady = (waState = "CONNECTED")]
    /\ Emit(v, inbox, <<[type |-> "check-session"], GetChatsCmd>>)
    /\ timer' = [timer EXCEPT ![v] = IF @ = "none" THEN SetTimeout ELSE @]
    /\ UNCHANGED <<platformVars, onceReady, viewVars, sentTo, logs, configVars,
                   pushVars, console>>

\* a 'qr' listener that stores the payload and leaves the error flag alone
ViewerOnQr_KeepsError(v, ev) ==
    /\ qrCode' = [qrCode EXCEPT ![v] = ev.qr]
    /\ isReady' = [isReady EXCEPT ![v] = FALSE]
    /\ UNCHANGED <<hasError, chats, chatVars>>

\* socket.on('qr')
ViewerOnQr(v, ev) ==
    /\ qrCode' = [qrCode EXCEPT ![v] = ev.qr]
    /\ isReady' = [isReady EXCEPT ![v] = FALSE]
    /\ hasError' = [hasError EXCEPT ![v] = FALSE]
    /\ UNCHANGED <<chats, chatVars>>

\* socket.on('session_exists')
ViewerOnSessionExists(v, ev) ==
    /\ IF ev.exists
       THEN /\ isReady' = [isReady EXCEPT ![v] = TRUE]
            /\ hasError' = [hasError EXCEPT ![v] = FALSE]
       ELSE /\ isReady' = IF ui = "part_000" THEN [isReady EXCEPT ![v] = FALSE]
                          ELSE isReady
            /\ UNCHANGED hasError
    /\ UNCHANGED <<qrCode, chats, chatVars>>

\* socket.on('ready')
ViewerOnReady(v) ==
    /\ isReady' = [isReady EXCEPT ![v] = TRUE]
    /\ hasError' = [hasError EXCEPT ![v] = FALSE]
    /\ UNCHANGED <<qrCode, chats, chatVars>>

\* socket.on('authenticated') : no server snapshot sends this event
ViewerOnAuthenticated(v) ==
    /\ isReady' = [isReady EXCEPT ![v] = TRUE]
    /\ hasError' = [hasError EXCEPT ![v] = FALSE]
    /\ UNCHANGED <<qrCode, chats, chatVars>>

\* socket.on('chats')
ViewerOnChats(v, ev) ==
    /\ chats' = [chats EXCEPT ![v] = ev.list]
    /\ UNCHANGED <<isReady, qrCode, hasError, chatVars>>

\* socket.on('messages') : wholesale replacement of one chat's list
ViewerOnMessages(v, ev) ==
    /\ messages' = [messages EXCEPT ![v][ev.chatId] = ev.messages]
    /\ msgKeys' = [msgKeys EXCEPT ![v] = @ \cup {ev.chatId}]
    /\ effectPending' = [effectPending EXCEPT ![v] = TRUE]
    /\ UNCHANGED <<sessionVars, selectedChat, selectedChatRef, unreadCounts,
                   lastUnread>>

\* whether the 'message' listener calls incrementUnreadCount(chatId)
CountsUnread(v, newMessage, chatId) ==
    /\ ui = "page.tsx"
    /\ ~newMessage.fromMe
    /\ selectedChatRef[v] # chatId

\* socket.on('message')
ViewerOnMessage(v, ev) ==
    LET newMessage == ev.msg
        chatId == MessageChatId(v, newMessage)
    IN
    /\ messages' = [messages EXCEPT ![v] = AppendMessage(@, chatId, newMessage)]
    /\ msgKeys' = [msgKeys EXCEPT ![v] = @ \cup {chatId}]
    /\ effectPending' = [effectPending EXCEPT ![v] = TRUE]
    /\ IF CountsUnread(v, newMessage, chatId)
       THEN /\ unreadCounts' = [unreadCounts EXCEPT
                                  ![v] = incrementUnreadCount(@, chatId)]
            /\ lastUnread' = [lastUnread EXCEPT
                                  ![v] = UnreadOp(@, "inc", chatId,
                                                    unreadCounts[v][chatId])]
       ELSE UNCHANGED <<unreadCounts, lastUnread>>
    /\ UNCHANGED <<sessionVars, selectedChat, selectedChatRef>>

\* the chat a 'message_sent' event is stored under (NoChat: dropped)
MessageSentChatId(v, newMessage) == selectedChatRef[v]

\* socket.on('message_sent')
ViewerOnMessageSent(v, ev) ==
    LET chatId == MessageSentChatId(v, ev.msg) IN
    /\ IF chatId = NoChat
       THEN UNCHANGED <<messages, msgKeys, effectPending>>
       ELSE /\ messages' = [messages EXCEPT
                  ![v] = AppendMessage(@, chatId, [ev.msg EXCEPT !.fromMe = TRUE])]
            /\ msgKeys' = [msgKeys EXCEPT ![v] = @ \cup {chatId}]
            /\ effectPending' = [effectPending EXCEPT ![v] = TRUE]
    /\ UNCHANGED <<sessionVars, selectedChat, selectedChatRef, unreadCounts,
                   lastUnread>>

\* an event the page has no listener for (message_ack_update): dropped
NoListener(v) == UNCHANGED <<isReady, qrCode, hasError, chats, chatVars>>

\* the commands the handler of ev emits
ViewerEmits(ev) ==
    IF \/ ev.type = "ready"
       \/ ev.type = "session_exists" /\ ev.exists
    THEN <<GetChatsCmd>>
    ELSE <<>>

\* the viewer handles the next event of its socket (together with the 'log'
\* event that follows it, when there is one: that handler only adds a log
\* line)
ViewerRecv(v) ==
    /\ connected[v] /\ inbox[v] # <<>>
    /\ LET ev == Head(inbox[v]) IN
         /\ Emit(v, [inbox EXCEPT ![v] = Tail(@)], ViewerEmits(ev))
         /\ CASE ev.type = "qr" -> ViewerOnQr(v, ev)
              [] ev.type = "session_exists" -> ViewerOnSessionExists(v, ev)
              [] ev.type = "ready" -> ViewerOnReady(v)
              [] ev.type = "authenticated" -> ViewerOnAuthenticated(v)
              [] ev.type = "chats" -> ViewerOnChats(v, ev)
              [] ev.type = "messages" -> ViewerOnMessages(v, ev)
              [] ev.type = "message" -> ViewerOnMessage(v, ev)
              [] ev.type = "message_sent" -> ViewerOnMessageSent(v, ev)
              [] ev.type = "message_ack_update" -> NoListener(v)
         /\ seen' = [seen EXCEPT ![v] = Sees(@, ev)]
         /\ timer' = [timer EXCEPT
                        ![v] = IF ClearsTimer(ev) THEN ClearTimeout(@) ELSE @]
    /\ UNCHANGED <<platformVars, onceReady, connected, n, sentTo, logs,
                   configVars, pushVars, console>>

\* the handler t after the socket it serves was closed
Orphan(t) == IF "v" \in DOMAIN t THEN [t EXCEPT !.v = Gone] ELSE t

\* the socket of viewer v is closed (the network, the server's ping timeout).
\* The server's 'disconnect' listener (part_003, part_004) only logs; the
\* events in flight are lost; the handlers suspended for the socket and the
\* once('ready') listeners registered for it go on, for a closed socket.  The
\* page keeps its state: page.tsx only changes loadingStage and adds a log
\* line, part_000 has no listener.  socket.io-client reconnects: Connect.
Disconnect(v) ==
    /\ connected[v]
    /\ connected' = [connected EXCEPT ![v] = FALSE]
    /\ inbox' = [inbox EXCEPT ![v] = <<>>]
    /\ tasks' = LET moved == {t \in BagToSet(tasks) : "v" \in DOMAIN t /\ t.v = v}
                    kept == [t \in BagToSet(tasks) \ moved |-> tasks[t]]
                    gone == [u \in {Orphan(t) : t \in moved} |-> tasks[[u EXCEPT !.v = v]]]
                IN kept (+) gone
    /\ onceReady' = [onceReady EXCEPT ![Gone] = @ + onceReady[v], ![v] = 0]
    /\ UNCHANGED <<platformVars, viewVars, n, auxVars, configVars, pushVars,
                   console, timer>>

\* the page is loaded: the socket effect has run (page.tsx: with a timeout
\* set; part_000 leaves no trace before its socket connects)
Loaded(v) == connected[v] \/ timer[v] # "none"

\* socket.on('connect_error') of page.tsx: the socket could not connect
ConnectError(v) ==
    /\ ui = "page.tsx" /\ Loaded(v) /\ ~connected[v]
    /\ hasError' = [hasError EXCEPT ![v] = TRUE]
    /\ UNCHANGED <<platformVars, onceReady, tasks, inbox, connected, isReady,
                   qrCode, chats, chatVars, n, auxVars, configVars, pushVars,
                   console, timer>>

\* the 30 s loading timeout of page.tsx fires.  Its callback tests
\* `!isReady && !qrCode` of the render that set the timeout, the first one
\* (isReady false, qrCode ''): the test always passes.
Timeout(v) ==
    /\ timer[v] = "armed"
    /\ timer' = [timer EXCEPT ![v] = "fired"]
    /\ hasError' = [hasError EXCEPT ![v] = TRUE]
    /\ UNCHANGED <<platformVars, onceReady, tasks, inbox, connected, isReady,
                   qrCode, chats, chatVars, n, auxVars, configVars, pushVars,
                   console>>

\* the error panel with the Retry button is on screen
ShowsRetry(v) ==
    /\ ui = "page.tsx" /\ Loaded(v)
    /\ ~isReady[v] /\ qrCode[v] = 0 /\ hasError[v]

\* onRetry: window.location.reload().  The socket is closed, every state of
\* the page starts over and the socket effect sets a new timeout.  What the
\* server still does for the closed socket reaches nobody: its suspended
\* handlers and once('ready') listeners are dropped here.
Retry(v) ==
    /\ ShowsRetry(v)
    /\ connected' = [connected EXCEPT ![v] = FALSE]
    /\ inbox' = [inbox EXCEPT ![v] = <<>>]
    /\ tasks' = [t \in {u \in BagToSet(tasks) : "v" \in DOMAIN u => u.v # v}
                   |-> tasks[t]]
    /\ onceReady' = [onceReady EXCEPT ![v] = 0]
    /\ isReady' = [isReady EXCEPT ![v] = FALSE]
    /\ qrCode' = [qrCode EXCEPT ![v] = 0]
    /\ hasError' = [hasError EXCEPT ![v] = FALSE]
    /\ chats' = [chats EXCEPT ![v] = <<>>]
    /\ selectedChat' = [selectedChat EXCEPT ![v] = NoChat]
    /\ selectedChatRef' = [selectedChatRef EXCEPT ![v] = NoChat]
    /\ messages' = [messages EXCEPT ![v] = [c \in Chats |-> <<>>]]
    /\ msgKeys' = [msgKeys EXCEPT ![v] = {}]
    /\ unreadCounts' = [unreadCounts EXCEPT ![v] = [c \in Chats |-> 0]]
    /\ effectPending' = [effectPending EXCEPT ![v] = FALSE]
    /\ lastUnread' = [lastUnread EXCEPT ![v] = NoUnreadOp]
    /\ seen' = [seen EXCEPT ![v] = NothingSeen]
    /\ timer' = [timer EXCEPT ![v] = SetTimeout]
    /\ UNCHANGED <<platformVars, n, sentTo, logs, configVars, pushVars, console>>

InList(c, list) == \E i \in 1..Len(list) : list[i] = c

\* A click of the user (select, close, send) is a discrete event: React runs
\* the pending passive effects before it handles one, hence ~effectPending.
\* A socket listener is no React event: it can run between a commit and the
\* commit's passive effects.

\* onSelect={setSelectedChat} on a chat of the list; the chat list and the
\* message panel are rendered only when isReady
SelectChat(v, c) ==
    /\ v \in Actors /\ ~effectPending[v]
    /\ isReady[v] /\ InList(c, chats[v]) /\ selectedChat[v] # c
    /\ n.sel > 0
    /\ n' = [n EXCEPT !.sel = @ - 1]
    /\ selectedChat' = [selectedChat EXCEPT ![v] = c]
    /\ effectPending' = [effectPending EXCEPT ![v] = TRUE]
    /\ UNCHANGED <<platformVars, onceReady, tasks, inbox, connected,
                   sessionVars, selectedChatRef, messages, msgKeys,
                   unreadCounts, lastUnread, auxVars, configVars,
                   pushVars, console, timer>>

\* onBack / the close button of page.tsx: setSelectedChat(null)
DeselectChat(v) ==
    /\ v \in Actors /\ ~effectPending[v]
    /\ ui = "page.tsx"
    /\ isReady[v] /\ selectedChat[v] # NoChat
    /\ selectedChat' = [selectedChat EXCEPT ![v] = NoChat]
    /\ effectPending' = [effectPending EXCEPT ![v] = TRUE]
    /\ UNCHANGED <<platformVars, onceReady, tasks, inbox, connected,
                   sessionVars, selectedChatRef, messages, msgKeys,
                   unreadCounts, lastUnread, n, auxVars, configVars,
                   pushVars, console, timer>>

\* the value the ref sync effect stores: selectedChatRef.current = selectedChat
RefSync(v) == selectedChat[v]

\* the passive effects of a commit: the ref sync effect ([selectedChat]) and
\* the fetch / mark-as-read effect ([selectedChat, messages]); part_000 has
\* no unread counts and marks nothing
RunEffects(v) ==
    LET sel == selectedChat[v] IN
    /\ effectPending[v]
    /\ effectPending' = [effectPending EXCEPT ![v] = FALSE]
    /\ selectedChatRef' = [selectedChatRef EXCEPT ![v] = RefSync(v)]
    /\ Emit(v, inbox, IF sel # NoChat /\ sel \notin msgKeys[v]
                      THEN <<[type |-> "get-messages", chatId |-> sel]>>
                      ELSE <<>>)
    /\ IF ui = "page.tsx" /\ sel # NoChat
       THEN /\ unreadCounts' = [unreadCounts EXCEPT ![v] = markChatAsRead(@, sel)]
            /\ lastUnread' = [lastUnread EXCEPT
                                ![v] = UnreadOp(@, "clear", sel,
                                                  unreadCounts[v][sel])]
       ELSE UNCHANGED <<unreadCounts, lastUnread>>
    /\ UNCHANGED <<platformVars, onceReady, connected, sessionVars,
                   selectedChat, messages, msgKeys, n, auxVars, configVars,
                   pushVars, console, timer>>

\* the optimistic echo of part_000 (commented out in page.tsx)
TempMessage(c, body) ==
    [id |-> <<"temp", body>>, body |-> body, from |-> Me, to |-> c,
     fromMe |-> TRUE]

\* MessagePanel.sendMessage
SendMessage(v) ==
    LET sel == selectedChat[v]
        body == NextBody IN
    /\ v \in Actors /\ ~effectPending[v]
    /\ isReady[v] /\ sel # NoChat
    /\ n.send > 0
    /\ n' = [n EXCEPT !.send = @ - 1]
    /\ IF ui = "part_000"
       THEN /\ messages' = [messages EXCEPT
                              ![v] = AppendMessage(@, sel, TempMessage(sel, body))]
            /\ msgKeys' = [msgKeys EXCEPT ![v] = @ \cup {sel}]
            /\ effectPending' = [effectPending EXCEPT ![v] = TRUE]
       ELSE UNCHANGED <<messages, msgKeys, effectPending>>
    /\ Emit(v, inbox, <<[type |-> "send-message", to |-> sel, message |-> body]>>)
    /\ UNCHANGED <<platformVars, onceReady, connected, sessionVars,
                   selectedChat, selectedChatRef, unreadCounts, lastUnread,
                   auxVars, configVars,
                   pushVars, console, timer>>

(***************************************************************************)
(* Specifications                                                          *)
(*                                                                         *)
(* Spec        : from process start; the session bootstrap (platform       *)
(*               client start, qr, ready, viewers connecting,              *)
(*               check-session and get-chats).                             *)
(* SpecChat    : from the state the bootstrap ends in (client ready, a     *)
(*               viewer connected and showing the chat list); platform     *)
(*               messages, chat selection, history fetch.                  *)
(* SpecSend    : the same with every viewer connected; outbound sends,     *)
(*               chat selection, history fetch.                            *)
(* SpecInbound : from the states SpecChat reaches with a chat opened (or   *)
(*               none) and nothing under way; platform messages only.      *)
(* SpecUnread  : the two unread-counter operations, applied in every order *)
(*               to every count.                                           *)
(***************************************************************************)
NextBoot ==
    \/ ClientInitialize
    \/ ClientOnQr
    \/ ClientOnReady
    \/ \E ok \in BOOLEAN : ReadyGetChatsDone(ok)
    \/ \E v \in Viewers : Connect(v)
    \/ \E t \in BagToSet(tasks), ok \in BOOLEAN : CheckSessionDone(t, ok)
    \/ \E t \in BagToSet(tasks), ok \in BOOLEAN : GetChatsStateDone(t, ok)
    \/ \E t \in BagToSet(tasks), ok \in BOOLEAN : GetChatsDone(t, ok)
    \/ \E v \in Viewers : ViewerRecv(v)

Spec == Init /\ [][NextBoot]_vars

\* a state Spec reaches: the client is ready, the viewers of conn have
\* connected, handled 'ready' / session_exists and received the chat list;
\* the other viewers have not connected
InitReadyWith(conn, budget, history) ==
    /\ server \in Servers
    /\ ui \in Pages
    /\ pupPage = TRUE
    /\ waState = "CONNECTED"
    /\ waChats = <<"c1", "c2">>
    /\ waHistory = history
    /\ onceReady = [v \in Sockets |-> 0]
    /\ tasks = EmptyBag
    /\ inbox = [v \in Viewers |-> <<>>]
    /\ connected = [v \in Viewers |-> v \in conn]
    /\ isReady = [v \in Viewers |-> v \in conn]
    /\ chats = [v \in Viewers |-> IF v \in conn THEN <<"c1", "c2">> ELSE <<>>]
    /\ NoViewState
    /\ n = budget
    /\ sentTo = [v \in Viewers |-> 0]
    /\ logs = [v \in Viewers |-> 0]
    /\ seen = [v \in Viewers |->
                 IF v \in conn
                 THEN [NothingSeen EXCEPT !.sessionTrue = TRUE, !.chatsAfter = TRUE]
                 ELSE NothingSeen]
    /\ NoPush /\ NoConsole
    /\ timer = TimersAfterReady(conn)

\* the same for an account whose chats hold no message yet
InitReady(conn, budget) == InitReadyWith(conn, budget, [c \in Chats |-> <<>>])

\* the same with the budget of the chat specifications
InitChat(conn, sel) ==
    InitReady(conn, [msg |-> MaxMsgs, send |-> MaxSends, sel |-> sel, qr |-> 0,
                     fail |-> MaxFails, conn |-> 0, disc |-> 0, ack |-> 0])

\* server.js never reads msg.hasMedia
MediaInputs == IF server = "server.js" THEN {FALSE} ELSE BOOLEAN

\* inbound traffic: platform messages, chat selection, history fetch
NextChat ==
    \/ \E c \in Chats, fromMe \in BOOLEAN, hasMedia \in MediaInputs :
          ClientOnMessage(c, fromMe, hasMedia)
    \/ \E t \in BagToSet(tasks), ok \in BOOLEAN : MessageMediaDone(t, ok)
    \/ \E t \in BagToSet(tasks), ok \in BOOLEAN : GetMessagesFetched(t, ok)
    \/ \E t \in BagToSet(tasks) :
          \E failed \in SUBSET (1..MaxMsgs) : GetMessagesMediaDone(t, failed)
    \/ \E v \in Viewers : ViewerRecv(v)
    \/ \E v \in Viewers, c \in Chats : SelectChat(v, c)
    \/ \E v \in Viewers : DeselectChat(v)
    \/ \E v \in Viewers : RunEffects(v)

SpecChat == InitChat(Actors, MaxSelects) /\ [][NextChat]_vars

\* outbound traffic: sends, chat selection, history fetch; every viewer is
\* connected
NextSend ==
    \/ \E v \in Viewers : SendMessage(v)
    \/ \E t \in BagToSet(tasks), ok \in BOOLEAN : SendMessageDone(t, ok)
    \/ \E t \in BagToSet(tasks), ok \in BOOLEAN : GetMessagesFetched(t, ok)
    \/ \E v \in Viewers : ViewerRecv(v)
    \/ \E v \in Viewers, c \in Chats : SelectChat(v, c)
    \/ \E v \in Viewers : DeselectChat(v)
    \/ \E v \in Viewers : RunEffects(v)

SpecSend == InitChat(Viewers, MaxSendSelects) /\ [][NextSend]_vars

\* lastUnread after chat c was opened: marked as read when it was selected
\* and again when its history arrived
Opened(c) == UnreadOp(UnreadOp(NoUnreadOp, "clear", c, 0), "clear", c, 0)

\* inbound traffic with the selection fixed: the actors have no chat open or
\* have opened one (its history fetched, empty) before the first message
InitInbound ==
    \E sel \in [Viewers -> Chats \cup {NoChat}] :
       /\ \A v \in Viewers \ Actors : sel[v] = NoChat
       /\ server \in Servers
       /\ ui \in Pages
       /\ pupPage = TRUE
       /\ waState = "CONNECTED"
       /\ waChats = <<"c1", "c2">>
       /\ waHistory = [c \in Chats |-> <<>>]
       /\ onceReady = [v \in Sockets |-> 0]
       /\ tasks = EmptyBag
       /\ inbox = [v \in Viewers |-> <<>>]
       /\ connected = [v \in Viewers |-> v \in Actors]
       /\ isReady = [v \in Viewers |-> v \in Actors]
       /\ chats = [v \in Viewers |-> IF v \in Actors THEN <<"c1", "c2">> ELSE <<>>]
       /\ selectedChat = sel
       /\ selectedChatRef = sel
       /\ messages = [v \in Viewers |-> [c \in Chats |-> <<>>]]
       /\ msgKeys = [v \in Viewers |-> {sel[v]} \ {NoChat}]
       /\ unreadCounts = [v \in Viewers |-> [c \in Chats |-> 0]]
       /\ effectPending = [v \in Viewers |-> FALSE]
       /\ lastUnread = [v \in Viewers |->
                          IF ui = "page.tsx" /\ sel[v] # NoChat
                          THEN Opened(sel[v]) ELSE NoUnreadOp]
       /\ qrCode = [v \in Viewers |-> 0]
       /\ hasError = [v \in Viewers |-> FALSE]
       /\ n = [msg |-> MaxMsgs, send |-> 0, sel |-> 0, qr |-> 0,
               fail |-> MaxFails, conn |-> 0, disc |-> 0, ack |-> 0]
       /\ sentTo = [v \in Viewers |-> 0]
       /\ logs = [v \in Viewers |-> 0]
       /\ seen = [v \in Viewers |->
                    IF v \in Actors
                    THEN [NothingSeen EXCEPT !.sessionTrue = TRUE, !.chatsAfter = TRUE]
                    ELSE NothingSeen]
       /\ NoPush /\ NoConsole
       /\ timer = TimersAfterReady(Actors)

NextInbound ==
    \/ \E c \in Chats, fromMe \in BOOLEAN, hasMedia \in MediaInputs :
          ClientOnMessage(c, fromMe, hasMedia)
    \/ \E t \in BagToSet(tasks), ok \in BOOLEAN : MessageMediaDone(t, ok)
    \/ \E v \in Viewers : ViewerRecv(v)
    \/ \E v \in Viewers : RunEffects(v)

SpecInbound == InitInbound /\ [][NextInbound]_vars

\* the server process is starting (client.initialize() has not made the page
\* yet).  The pages of the viewers of `loaded` are loaded; of these, the
\* sockets of `conn` have connected, and their check-session and get-chats
\* were answered (where the server has listeners for them) with
\* session_exists false and an empty list.
InitBoot(loaded, conn, budget) ==
    /\ server \in Servers
    /\ ui \in Pages
    /\ pupPage = FALSE
    /\ waState = "OPENING"
    /\ waChats = <<"c1", "c2">>
    /\ waHistory = [c \in Chats |-> <<>>]
    /\ onceReady = [v \in Sockets |-> 0]
    /\ tasks = EmptyBag
    /\ inbox = [v \in Viewers |-> <<>>]
    /\ connected = [v \in Viewers |-> v \in conn]
    /\ isReady = [v \in Viewers |-> FALSE]
    /\ chats = [v \in Viewers |-> <<>>]
    /\ NoViewState
    /\ n = budget
    /\ sentTo = [v \in Viewers |-> 0]
    /\ logs = [v \in Viewers |-> 0]
    /\ seen = [v \in Viewers |->
                 IF v \in conn /\ server # "server.js"
                 THEN [NothingSeen EXCEPT !.chatsEarly = TRUE, !.chatsEmpty = TRUE]
                 ELSE NothingSeen]
    /\ NoPush /\ NoConsole
    /\ timer = [v \in Viewers |-> IF v \in loaded THEN SetTimeout ELSE "none"]

\* the session bootstrap seen from one viewer, whose page is loaded: the
\* loading timeout, a socket that cannot connect, the retry, and the platform
\* events that reach the viewers, each of which may also never come
NextStart ==
    \/ ClientInitialize
    \/ ClientOnQr
    \/ ClientOnReady
    \/ \E ok \in BOOLEAN : ReadyGetChatsDone(ok)
    \/ \E v \in Actors : Connect(v)
    \/ \E v \in Viewers : ConnectError(v)
    \/ \E v \in Viewers : Timeout(v)
    \/ \E v \in Viewers : Retry(v)
    \/ \E t \in BagToSet(tasks), ok \in BOOLEAN : CheckSessionDone(t, ok)
    \/ \E t \in BagToSet(tasks), ok \in BOOLEAN : GetChatsStateDone(t, ok)
    \/ \E t \in BagToSet(tasks), ok \in BOOLEAN : GetChatsDone(t, ok)
    \/ \E v \in Viewers : ViewerRecv(v)

InitStart ==
    InitBoot(Actors, {}, [msg |-> 0, send |-> 0, sel |-> 0, qr |-> MaxQr,
                          fail |-> 0, conn |-> MaxConnects, disc |-> 0, ack |-> 0])

SpecStart == InitStart /\ [][NextStart]_vars

\* the same for the page that sets a loading timeout, page.tsx
InitStartTimed == InitStart /\ ui = "page.tsx"

\* a timeout that was set and not cleared fires in the end.  Nothing else is
\* assumed to happen: the server may stay silent and the socket may never
\* connect.
SpecStartFair ==
    /\ InitStartTimed
    /\ [][NextStart]_vars
    /\ \A v \in Viewers : WF_vars(Timeout(v))

\* the platform failures: a rejected client.initialize(), auth_failure and
\* disconnected, among the events of the bootstrap; one viewer connects
NextFailure ==
    \/ ClientInitialize
    \/ ClientInitializeFails
    \/ ClientOnQr
    \/ ClientOnAuthFailure
    \/ ClientOnReady
    \/ ClientOnDisconnected
    \/ \E ok \in BOOLEAN : ReadyGetChatsDone(ok)
    \/ \E v \in Actors : Connect(v)
    \/ \E t \in BagToSet(tasks), ok \in BOOLEAN : CheckSessionDone(t, ok)
    \/ \E t \in BagToSet(tasks), ok \in BOOLEAN : GetChatsStateDone(t, ok)
    \/ \E t \in BagToSet(tasks), ok \in BOOLEAN : GetChatsDone(t, ok)
    \/ \E v \in Viewers : ViewerRecv(v)

InitFailure ==
    InitBoot(Actors, {}, [msg |-> 0, send |-> 0, sel |-> 0, qr |-> MaxQr,
                          fail |-> 0, conn |-> MaxConnects,
                          disc |-> MaxDisconnects, ack |-> 0])

SpecFailure == InitFailure /\ [][NextFailure]_vars

\* qr events while one viewer is connected and the socket of another
\* connects at any moment, before or after them; with and without a loading
\* timeout that fired before
NextQr ==
    \/ ClientInitialize
    \/ ClientOnQr
    \/ \E v \in Actors : Connect(v)
    \/ \E v \in Viewers : Timeout(v)
    \/ \E t \in BagToSet(tasks), ok \in BOOLEAN : CheckSessionDone(t, ok)
    \/ \E t \in BagToSet(tasks), ok \in BOOLEAN : GetChatsStateDone(t, ok)
    \/ \E t \in BagToSet(tasks), ok \in BOOLEAN : GetChatsDone(t, ok)
    \/ \E v \in Viewers : ViewerRecv(v)

InitQr ==
    InitBoot(Viewers, Viewers \ Actors,
             [msg |-> 0, send |-> 0, sel |-> 0, qr |-> MaxQr, fail |-> 0,
              conn |-> MaxConnects, disc |-> 0, ack |-> 0])

SpecQr == InitQr /\ [][NextQr]_vars

\* the chat list refresh of 'ready': every viewer connected before the client
\* is ready; the client becomes ready, with or without a qr event before;
\* each getChats resolves or rejects; the viewers ask for the list themselves
\* when they handle 'ready'
NextReady ==
    \/ ClientInitialize
    \/ ClientOnQr
    \/ ClientOnReady
    \/ \E ok \in BOOLEAN : ReadyGetChatsDone(ok)
    \/ \E t \in BagToSet(tasks), ok \in BOOLEAN : GetChatsStateDone(t, ok)
    \/ \E t \in BagToSet(tasks), ok \in BOOLEAN : GetChatsDone(t, ok)
    \/ \E v \in Viewers : ViewerRecv(v)

InitRefresh ==
    InitBoot(Viewers, Viewers, [msg |-> 0, send |-> 0, sel |-> 0, qr |-> MaxQr,
                                fail |-> MaxFails, conn |-> 0, disc |-> 0, ack |-> 0])

\* an event sent to a connected socket is handled in the end: socket.io
\* delivers it and the event loop of the page runs its listener
SpecReady ==
    /\ InitRefresh
    /\ [][NextReady]_vars
    /\ \A v \in Viewers : WF_vars(ViewerRecv(v))

\* a message the account received before the server started
OldMediaMsg ==
    [id |-> <<"wa", 0>>, from |-> "c1", to |-> Me, body |-> 0,
     fromMe |-> FALSE, ack |-> 0, hasMedia |-> TRUE]

\* the client is ready and a second viewer is connected and ready; the
\* acting viewer is connected and ready too, or has yet to connect; the
\* history of c1 is empty or holds one message with media
InitRequest ==
    \E conn \in {Viewers \ Actors, Viewers},
       history \in {[c \in Chats |-> <<>>],
                    [c \in Chats |-> IF c = "c1" THEN <<OldMediaMsg>> ELSE <<>>]} :
       InitReadyWith(conn, [msg |-> 0, send |-> 0, sel |-> MaxSelects, qr |-> 0,
                            fail |-> MaxFails, conn |-> MaxConnects, disc |-> 0, ack |-> 0],
                     history)

\* the requests of one viewer (session check and chat list on connect,
\* message history on opening a chat) and their handlers, each awaited call
\* of which may reject
NextRequest ==
    \/ \E v \in Actors : Connect(v)
    \/ \E t \in BagToSet(tasks), ok \in BOOLEAN : CheckSessionDone(t, ok)
    \/ \E t \in BagToSet(tasks), ok \in BOOLEAN : GetChatsStateDone(t, ok)
    \/ \E t \in BagToSet(tasks), ok \in BOOLEAN : GetChatsDone(t, ok)
    \/ \E t \in BagToSet(tasks), ok \in BOOLEAN : GetMessagesFetched(t, ok)
    \/ \E t \in BagToSet(tasks) :
          \E failed \in SUBSET (1..MaxMsgs) : GetMessagesMediaDone(t, failed)
    \/ \E v \in Viewers : ViewerRecv(v)
    \/ \E v \in Viewers, c \in Chats : SelectChat(v, c)
    \/ \E v \in Viewers : RunEffects(v)

SpecRequest == InitRequest /\ [][NextRequest]_vars

\* a message the account sent before the server started
OldSentMsg ==
    [id |-> <<"wa", 0>>, from |-> Me, to |-> "c1", body |-> 0,
     fromMe |-> TRUE, ack |-> 0, hasMedia |-> FALSE]

\* delivery acks: the platform reports the ack levels of a message the
\* account sent, while a viewer opens chats and fetches their history;
\* every viewer is connected
NextAck ==
    \/ \E c \in Chats, ack \in AckLevels :
          \E i \in 1..Len(waHistory[c]) : ClientOnMessageAck(c, i, ack)
    \/ \E t \in BagToSet(tasks), ok \in BOOLEAN : GetMessagesFetched(t, ok)
    \/ \E v \in Viewers : ViewerRecv(v)
    \/ \E v \in Viewers, c \in Chats : SelectChat(v, c)
    \/ \E v \in Viewers : RunEffects(v)

InitAck ==
    InitReadyWith(Viewers,
                  [msg |-> 0, send |-> 0, sel |-> MaxSelects, qr |-> 0,
                   fail |-> MaxFails, conn |-> 0, disc |-> 0, ack |-> MaxAcks],
                  [c \in Chats |-> IF c = "c1" THEN <<OldSentMsg>> ELSE <<>>])

SpecAck == InitAck /\ [][NextAck]_vars

\* push dispatch: the registry fills while platform messages arrive and the
\* deliveries they start settle in any order; every viewer is connected.  The
\* 'message' event of the platform client carries messages of others only.
NextPush ==
    \/ \E v \in Actors, sub \in Subs : Subscribe(v, sub)
    \/ ClientOnMessage("c1", FALSE, FALSE)
    \/ \E p \in pushes, ok \in BOOLEAN : PushSettled(p, ok)
    \/ \E v \in Viewers : ViewerRecv(v)

InitPush ==
    /\ InitReady(Viewers, [msg |-> MaxPushMsgs, send |-> 0, sel |-> 0, qr |-> 0,
                           fail |-> 0, conn |-> 0, disc |-> 0, ack |-> 0])
    /\ server \in PushServers

SpecPush == InitPush /\ [][NextPush]_vars

\* the registry over the life of the sockets: viewers register and their
\* sockets close, while the deliveries of a platform message settle (the
\* viewers leave the 'message' events in their queues)
NextRegistry ==
    \/ \E v \in Viewers, sub \in Subs : Subscribe(v, sub)
    \/ \E v \in Viewers : Disconnect(v)
    \/ ClientOnMessage("c1", FALSE, FALSE)
    \/ \E p \in pushes, ok \in BOOLEAN : PushSettled(p, ok)

SpecRegistry == InitPush /\ [][NextRegistry]_vars

\* calls under way side by side: one viewer opens a chat and sends while a
\* second one connects and a platform message arrives; no awaited call
\* rejects, and the viewers leave the answers in their queues.  (A push
\* delivery suspends no handler: sendNotification is not awaited.)
NextConcurrent ==
    \/ \E v \in Viewers : SelectChat(v, "c1")
    \/ \E v \in Viewers : RunEffects(v)
    \/ \E v \in Viewers : SendMessage(v)
    \/ \E v \in Viewers \ Actors : Connect(v)
    \/ \E hasMedia \in MediaInputs : ClientOnMessage("c1", FALSE, hasMedia)
    \/ \E t \in BagToSet(tasks), ok \in BOOLEAN : MessageMediaDone(t, ok)
    \/ \E t \in BagToSet(tasks), ok \in BOOLEAN : CheckSessionDone(t, ok)
    \/ \E t \in BagToSet(tasks), ok \in BOOLEAN : GetChatsStateDone(t, ok)
    \/ \E t \in BagToSet(tasks), ok \in BOOLEAN : GetChatsDone(t, ok)
    \/ \E t \in BagToSet(tasks), ok \in BOOLEAN : SendMessageDone(t, ok)
    \/ \E t \in BagToSet(tasks), ok \in BOOLEAN : GetMessagesFetched(t, ok)
    \/ \E t \in BagToSet(tasks) : GetMessagesMediaDone(t, {})

InitConcurrent ==
    InitReadyWith(Actors,
                  [msg |-> MaxPushMsgs, send |-> MaxSends, sel |-> MaxSelects,
                   qr |-> 0, fail |-> 0, conn |-> MaxConnects, disc |-> 0,
                   ack |-> 0],
                  [c \in Chats |-> IF c = "c1" THEN <<OldMediaMsg>> ELSE <<>>])

SpecConcurrent == InitConcurrent /\ [][NextConcurrent]_vars

\* a chat of k messages received before the server started, the last two
\* with media; ids from first + 1
OldChat(c, k, first) ==
    [i \in 1..k |-> [id |-> <<"wa", first + i>>, from |-> c, to |-> Me,
                     body |-> 0, fromMe |-> FALSE, ack |-> 0,
                     hasMedia |-> i > k - 2]]

\* the positions of the messages with media among those a handler fetched
MediaOf(t) ==
    IF "msgs" \in DOMAIN t
    THEN {i \in 1..Len(t.msgs) : t.msgs[i].hasMedia} ELSE {}

\* history fetches: the viewers are connected and ready; c1 holds more
\* messages than any fetch limit, c2 fewer; a viewer opens one chat after
\* the other
InitHistory ==
    InitReadyWith(Viewers,
                  [msg |-> 0, send |-> 0, sel |-> MaxSendSelects, qr |-> 0,
                   fail |-> MaxFails, conn |-> 0, disc |-> 0, ack |-> 0],
                  [c \in Chats |-> IF c = "c1" THEN OldChat(c, MaxHistory, 0)
                                   ELSE OldChat(c, MaxMsgs, MaxHistory)])

NextHistory ==
    \/ \E v \in Viewers, c \in Chats : SelectChat(v, c)
    \/ \E v \in Viewers : RunEffects(v)
    \/ \E t \in BagToSet(tasks), ok \in BOOLEAN : GetMessagesFetched(t, ok)
    \/ \E t \in BagToSet(tasks) :
          \E failed \in SUBSET MediaOf(t) : GetMessagesMediaDone(t, failed)
    \/ \E v \in Viewers : ViewerRecv(v)

SpecHistory == InitHistory /\ [][NextHistory]_vars

\* the phases of a viewer after the bootstrap: one viewer is ready, the
\* other has yet to connect; sockets close, fail to reconnect or reconnect,
\* the account is logged out and shows a QR code, the page is reloaded
NextPhase ==
    \/ \E v \in Viewers : Disconnect(v)
    \/ \E v \in Viewers : Connect(v)
    \/ \E v \in Viewers : ConnectError(v)
    \/ \E v \in Viewers : Retry(v)
    \/ ClientOnDisconnected
    \/ ClientOnQr
    \/ \E t \in BagToSet(tasks), ok \in BOOLEAN : CheckSessionDone(t, ok)
    \/ \E t \in BagToSet(tasks), ok \in BOOLEAN : GetChatsStateDone(t, ok)
    \/ \E t \in BagToSet(tasks), ok \in BOOLEAN : GetChatsDone(t, ok)
    \/ \E v \in Viewers : ViewerRecv(v)

InitPhase ==
    InitReady(Actors, [msg |-> 0, send |-> 0, sel |-> 0, qr |-> MaxQr,
                       fail |-> MaxFails, conn |-> MaxConnects,
                       disc |-> MaxDisconnects, ack |-> 0])

SpecPhase == InitPhase /\ [][NextPhase]_vars

\* the two unread-counter operations of the page, applied in every order to
\* every count up to MaxCount: incrementUnreadCount(chatId) as the 'message'
\* listener calls it, markChatAsRead(chatId) as the selection effect calls it
IncrementUnread(v, c) ==
    /\ unreadCounts[v][c] < MaxCount
    /\ unreadCounts' = [unreadCounts EXCEPT ![v] = incrementUnreadCount(@, c)]
    /\ lastUnread' = [lastUnread EXCEPT
                        ![v] = UnreadOp(@, "inc", c, unreadCounts[v][c])]
    /\ UNCHANGED <<platformVars, onceReady, tasks, inbox, connected,
                   sessionVars, selectedChat, selectedChatRef, messages,
                   msgKeys, effectPending, n, auxVars, configVars,
                   pushVars, console, timer>>

ClearUnread(v, c) ==
    /\ unreadCounts' = [unreadCounts EXCEPT ![v] = markChatAsRead(@, c)]
    /\ lastUnread' = [lastUnread EXCEPT
                        ![v] = UnreadOp(@, "clear", c, unreadCounts[v][c])]
    /\ UNCHANGED <<platformVars, onceReady, tasks, inbox, connected,
                   sessionVars, selectedChat, selectedChatRef, messages,
                   msgKeys, effectPending, n, auxVars, configVars,
                   pushVars, console, timer>>

NextUnread ==
    \/ \E v \in Viewers, c \in Chats : IncrementUnread(v, c)
    \/ \E v \in Viewers, c \in Chats : ClearUnread(v, c)

InitUnread ==
    /\ InitChat(Viewers, 0)
    /\ server = "part_004" /\ ui = "page.tsx"

SpecUnread == InitUnread /\ [][NextUnread]_vars

TypeOK ==
    /\ server \in Servers /\ ui \in Pages
    /\ pupPage \in BOOLEAN
    /\ \A v \in Viewers : /\ selectedChat[v] \in Chats \cup {NoChat}
                          /\ selectedChatRef[v] \in Chats \cup {NoChat}
                          /\ \A c \in Chats : unreadCounts[v][c] \in Nat

(***************************************************************************)
(* Properties                                                              *)
(***************************************************************************)
\* viewer v handles the event at the head of its socket in this step
Handles(v, type) ==
    /\ connected[v] /\ inbox[v] # <<>>
    /\ Head(inbox[v]).type = type
    /\ Len(inbox'[v]) = Len(inbox[v]) - 1

\* the positions of seq whose element satisfies P
Where(seq, P(_)) == {i \in 1..Len(seq) : P(seq[i])}

IsLive(m) == m.id[1] = "wa"       \* an entry that is a platform message
LiveEv(ev) == ev.type = "message"

\* C1: every inbound 'message' event a viewer handles appends exactly one
\* entry, the event's message, at the end of one chat's sequence (under
\* page.tsx: the sequence of the message's counterpart) and leaves every
\* other sequence, and every earlier entry, as it was.
C1_InboundAppendsAtEnd ==
    [][\A v \in Viewers :
         Handles(v, "message") =>
           LET m == Head(inbox[v]).msg IN
           \E c \in Chats :
              /\ messages'[v][c] = Append(messages[v][c], m)
              /\ \A d \in Chats \ {c} : messages'[v][d] = messages[v][d]
              /\ ui = "page.tsx" => c = (IF m.fromMe THEN m.to ELSE m.from)
      ]_vars

\* C1 witness: a viewer has handled the two platform messages of a run, both
\* of one chat, and holds them in the order it received them
C1_Witness ==
    \E v \in Viewers, c \in Chats :
       /\ inbox[v] = <<>>
       /\ Len(messages[v][c]) = 2
       /\ messages[v][c][1].id = <<"wa", 1>>
       /\ messages[v][c][2].id = <<"wa", 2>>

\* C2: for two platform 'message' events m1 then m2 of one chat, every
\* connected viewer is sent m1 before m2 and stores m1 before m2, whatever
\* media the two carry.  (Platform message ids count the platform events.)
C2_PlatformOrderKept ==
    \A v \in Viewers :
       /\ \A i, j \in 1..Len(inbox[v]) :
             (/\ i < j /\ LiveEv(inbox[v][i]) /\ LiveEv(inbox[v][j])
              /\ Counterpart(inbox[v][i].msg) = Counterpart(inbox[v][j].msg))
             => inbox[v][i].msg.id[2] <= inbox[v][j].msg.id[2]
       /\ \A c \in Chats : \A i, j \in 1..Len(messages[v][c]) :
             (/\ i < j /\ IsLive(messages[v][c][i]) /\ IsLive(messages[v][c][j])
              /\ Counterpart(messages[v][c][i]) = Counterpart(messages[v][c][j]))
             => messages[v][c][i].id[2] <= messages[v][c][j].id[2]

\* C3: one outbound send (the optimistic local echo plus the platform
\* confirmation, which an append with the id of the last entry would merge)
\* leaves exactly one entry for that send in the chat's sequence: no chat of
\* a viewer holds two entries of the account with the text of one send.
C3_OneEntryPerSend ==
    \A v \in Viewers, c \in Chats, b \in 1..MaxSends :
       LET OfSend(m) == m.fromMe /\ m.body = b /\ ~IsLive(m) IN
       Cardinality(Where(messages[v][c], OfSend)) <= 1

\* the successful sends so far: the messages client.sendMessage resolved to
Sent == {m \in UNION {{waHistory[c][i] : i \in 1..Len(waHistory[c])} : c \in Chats} :
           m.id[1] = "sent"}

\* the confirmation of send m has been handled by the viewer that issued it
ConfirmationHandled(v, m) ==
    /\ v \in Actors
    /\ \A i \in 1..Len(inbox[v]) :
          inbox[v][i].type = "message_sent" => inbox[v][i].msg.id # m.id

\* C4: after a send to chat `to` succeeded and its confirmation arrived, the
\* sending viewer's sequence of chat `to` holds exactly one entry for the
\* confirmed message (fromMe, the body sent) and no other chat holds one,
\* whatever chat the viewer had selected when the confirmation arrived.
C4_ConfirmedSendUnderTo ==
    \A v \in Viewers : \A m \in Sent :
       ConfirmationHandled(v, m) =>
          LET IsM(e) == e.id = m.id /\ e.fromMe /\ e.body = m.body IN
          \A c \in Chats :
             Cardinality(Where(messages[v][c], IsM)) = IF c = m.to THEN 1 ELSE 0

\* C5: a successful send produces exactly one message_sent event and that
\* event goes to every connected viewer: each connected viewer has been sent
\* as many message_sent events as there were successful sends.
C5_MessageSentToAll ==
    \A v \in Viewers : connected[v] => sentTo[v] = Cardinality(Sent)

C7_IncrementThenClearIsZero ==
    \A v \in Viewers, c \in Chats :
       /\ markChatAsRead(incrementUnreadCount(unreadCounts[v], c), c)[c] = 0
       /\ (/\ lastUnread[v].op = "clear" /\ lastUnread[v].chat = c
           /\ lastUnread[v].pop = "inc" /\ lastUnread[v].pchat = c)
          => unreadCounts[v][c] = 0

\* C7 witness: a count that was 1 was incremented (to 2) and then the chat
\* was marked as read: the count is 0
C7_Witness ==
    \E v \in Viewers, c \in Chats :
       /\ lastUnread[v].op = "clear" /\ lastUnread[v].chat = c
       /\ lastUnread[v].count = 2
       /\ lastUnread[v].pop = "inc" /\ lastUnread[v].pchat = c
       /\ lastUnread[v].pcount = 1
       /\ unreadCounts[v][c] = 0

Quiet(v) ==
    /\ inbox[v] = <<>>
    /\ \A t \in BagToSet(tasks) :
          t.kind \in {"check-session", "get-chats"} => t.v # v

\* C9: a viewer that connected while the client was already ready has, once
\* everything its connection started is done, the ready phase and the current
\* chat list, with no further platform event.
C9_LateJoinerGetsPhaseAndChats ==
    \A v \in Viewers :
       (connected[v] /\ seen[v].joinedReady /\ Quiet(v))
       => (isReady[v] /\ chats[v] = ChatList(waChats))

\* C10: a viewer whose check-session found the platform CONNECTED never
\* handles a qr event, handles no chats event before session_exists = true
\* and no empty chats event, and ends with session_exists = true followed by
\* a non-empty chats event.
C10_ConnectedSessionThenChats ==
    \A v \in Viewers :
       seen[v].csConnected =>
          /\ ~seen[v].qr
          /\ ~seen[v].chatsEarly
          /\ ~seen[v].chatsEmpty
          /\ Quiet(v) => (seen[v].sessionTrue /\ seen[v].chatsAfter)

\* the step is a run of the platform 'message' listener; NewId is the id of
\* its message
MessageStep == n'.msg = n.msg - 1
NewId == <<"wa", NextMsgId>>

\* the deliveries whatever their state
Attempts(ps) == {[msg |-> p.msg, pos |-> p.pos, sub |-> p.sub] : p \in ps}

\* C12: for every inbound platform message and every content of the registry,
\* the listener starts exactly one push delivery per entry of the registry
\* (position by position, duplicates included), and no later step, a failed
\* delivery least of all, takes a delivery back or keeps another from being
\* made.
C12_EveryEntryAttempted ==
    [][/\ MessageStep =>
            /\ \A i \in 1..Len(subscriptions) :
                  [msg |-> NewId, pos |-> i, sub |-> subscriptions[i],
                   state |-> "pending"] \in pushes'
            /\ Cardinality({p \in pushes' : p.msg = NewId}) = Len(subscriptions)
            /\ pushes \subseteq pushes'
       /\ ~MessageStep => Attempts(pushes') = Attempts(pushes)
      ]_vars

\* C12 witness: the delivery to the first entry of the registry failed and
\* the delivery of the same message to the second entry, another
\* subscription, was made and went through
C12_Witness ==
    \E p, q \in pushes :
       /\ p.msg = q.msg /\ p.pos = 1 /\ q.pos = 2 /\ p.sub # q.sub
       /\ p.state = "failed" /\ q.state = "sent"

\* the number of 'message' events in a queue
LiveCount(box) == Cardinality(Where(box, LiveEv))

\* C13: the listener of an inbound platform message appends exactly one
\* 'message' event, that message, to the socket of every connected viewer in
\* the step that starts the push deliveries (all of them still pending), and
\* no settling of a delivery, failed or not, sends or removes a 'message'
\* event.
C13_BroadcastWhateverThePushes ==
    [][\A v \in Viewers :
         /\ (MessageStep /\ connected[v]) =>
              /\ Len(inbox'[v]) = Len(inbox[v]) + 1
              /\ SubSeq(inbox'[v], 1, Len(inbox[v])) = inbox[v]
              /\ LiveEv(inbox'[v][Len(inbox'[v])])
              /\ inbox'[v][Len(inbox'[v])].msg.id = NewId
              /\ \A p \in pushes' : p.msg = NewId => p.state = "pending"
         /\ ~MessageStep => LiveCount(inbox'[v]) <= LiveCount(inbox[v])
         /\ pushes' # pushes /\ ~MessageStep => inbox'[v] = inbox[v]
      ]_vars

\* C13 witness: every viewer has handled the 'message' event of a message
\* one of whose deliveries failed while another is still pending
C13_Witness ==
    \E p, q \in pushes :
       /\ p.msg = q.msg /\ p.state = "failed" /\ q.state = "pending"
       /\ \A v \in Viewers :
             /\ connected[v] /\ inbox[v] = <<>>
             /\ \E c \in Chats : \E i \in 1..Len(messages[v][c]) :
                   messages[v][c][i].id = p.msg

\* the step is a run of the platform 'qr' listener
QrStep == n'.qr = n.qr - 1

\* C11: when the platform emits qr with payload P, the socket of every viewer
\* connected at that moment is sent one qr event with exactly P; and a viewer
\* that handles a qr event with payload P stores P and is neither ready nor
\* failed afterwards (AwaitingQR), whatever it was before.
C11_QrReachesEveryViewer ==
    [][\A v \in Viewers :
         /\ (QrStep /\ connected[v]) =>
              inbox'[v] = Append(inbox[v], [type |-> "qr", qr |-> QrPayload])
         /\ (QrStep /\ ~connected[v]) => inbox'[v] = inbox[v]
         /\ Handles(v, "qr") =>
              /\ qrCode'[v] = Head(inbox[v]).qr
              /\ ~isReady'[v] /\ ~hasError'[v]
      ]_vars

\* C11 witness: two connected viewers have handled the same qr event and both
\* await the scan with its payload; the loading timeout of one of them had
\* fired (it showed the error panel) before the qr event reached it
C11_Witness ==
    /\ \E P \in 1..MaxQr : \A v \in Viewers :
          /\ connected[v] /\ inbox[v] = <<>>
          /\ qrCode[v] = P /\ ~isReady[v] /\ ~hasError[v]
    /\ \E v \in Viewers : timer[v] = "fired"

\* the loading timeout of viewer v fires in this step
TimeoutFires(v) == timer[v] = "armed" /\ timer'[v] = "fired"

\* C14: the loading timeout fires at most once per load of the page, and
\* only while no terminal phase has been reached: not when the viewer is
\* ready or holds a QR payload, and not when the error flag was already set
\* for another cause (a connection error) before the deadline.
C14_TimeoutOnlyWhileLoading ==
    [][\A v \in Viewers :
         /\ TimeoutFires(v) =>
              (~isReady[v] /\ qrCode[v] = 0 /\ ~hasError[v])
         /\ timer[v] = "fired" => (timer'[v] = "fired" \/ ShowsRetry(v))
      ]_vars

\* a terminal phase of the bootstrap: Ready, AwaitingQR or Failed
Terminal(v) == isReady[v] \/ qrCode[v] # 0 \/ hasError[v]

\* C15: from every load of the page (the first and every retry), the viewer
\* reaches Ready, AwaitingQR or Failed in the end, whatever the server and
\* the platform do or leave undone.
C15_NeverSpinsForever ==
    \A v \in Viewers : (Loaded(v) /\ ~Terminal(v)) ~> Terminal(v)

\* C15 witness: a viewer whose socket connected, that was sent nothing that
\* ends the wait, and whose loading timeout fired: it shows the error panel
C15_Witness ==
    \E v \in Viewers :
       /\ connected[v] /\ inbox[v] = <<>> /\ timer[v] = "fired"
       /\ hasError[v] /\ ~isReady[v] /\ qrCode[v] = 0

\* the step is the reload of the page of viewer v by its Retry button
RetryStep(v) == ShowsRetry(v) /\ ~connected'[v] /\ timer'[v] = SetTimeout

\* C16: once the error flag of a viewer is set (by the loading timeout or a
\* connection error), only the retry clears it: no event from the server
\* (qr, authenticated, session_exists, ready) moves the viewer out of Failed.
C16_FailedLeftOnlyByRetry ==
    [][\A v \in Viewers :
         (hasError[v] /\ ~hasError'[v]) => RetryStep(v)
      ]_vars

\* the server's listener of a platform event of this kind runs in this step
Logged(kind) == kind \in console' /\ kind \notin console

\* viewer v is sent something in this step
Notified(v) == Len(inbox'[v]) > Len(inbox[v])

\* C17: when the platform reports auth_failure or client.initialize()
\* rejects, every connected viewer is notified of the failure, whatever its
\* phase (a viewer showing a QR code included).
C17_FailureNotifiesViewers ==
    [][\A v \in Viewers :
         (connected[v] /\ (Logged("auth_failure") \/ Logged("fatal")))
         => Notified(v)
      ]_vars

\* C18: when the platform client emits 'disconnected' while it is ready,
\* every connected viewer is informed, and the chat list and the message
\* sequences it holds are what they were.
C18_DisconnectedInformsViewers ==
    [][\A v \in Viewers :
         (connected[v] /\ Logged("disconnected")) =>
            /\ Notified(v)
            /\ chats'[v] = chats[v]
            /\ messages'[v] = messages[v]
      ]_vars

\* the refresh of the 'ready' listener, suspended at `await client.getChats()`
ReadyTask == [kind |-> "ready", stage |-> "getChats"]

\* the step is a run of the platform 'ready' listener up to its await; the
\* step is the rest of a run whose getChats resolved
ReadyStep == waState # "CONNECTED" /\ waState' = "CONNECTED"
RefreshResolves ==
    /\ CopiesIn(ReadyTask, tasks') < CopiesIn(ReadyTask, tasks)
    /\ n'.fail = n.fail

\* the event that carries the list fetched by a refresh
RefreshEv == ChatsEv(ChatList(waChats), FALSE)

\* a 'ready' event is in the queue of viewer v or was handled by it
ReadyDelivered(v) ==
    \/ seen[v].ready
    \/ \E i \in 1..Len(inbox[v]) : inbox[v][i].type = "ready"

\* C19: when the fetch that a platform 'ready' started resolves, the whole
\* chat list is sent to every connected viewer, and each of them was sent
\* 'ready' before; and a viewer that handles a 'chats' event holds exactly
\* the list of the event afterwards (nothing of the list it held is kept).
C19_ReadyThenWholeList ==
    [][\A v \in Viewers :
         /\ (RefreshResolves /\ connected[v]) =>
              /\ inbox'[v] = Append(inbox[v], RefreshEv)
              /\ ReadyDelivered(v)
         /\ Handles(v, "chats") => chats'[v] = Head(inbox[v]).list
      ]_vars

\* What does hold, under SpecReady: for the viewers connected since before
\* the 'ready', and a getChats that resolves.  Every 'ready' sends 'ready'
\* to each of them and starts one fetch of the whole list; when it resolves
\* each is sent the whole list behind the 'ready'; the list a viewer handles
\* replaces the one it held; and a viewer that was sent the fetched list
\* comes to hold it.
ReadyRefreshesPresentViewers ==
    /\ [][\A v \in Viewers :
            /\ (ReadyStep /\ connected[v]) =>
                 /\ CopiesIn(ReadyTask, tasks') = CopiesIn(ReadyTask, tasks) + 1
                 /\ Len(inbox'[v]) > Len(inbox[v])
                 /\ SubSeq(inbox'[v], 1, Len(inbox[v])) = inbox[v]
                 /\ inbox'[v][Len(inbox[v]) + 1].type = "ready"
            /\ (RefreshResolves /\ connected[v]) =>
                 /\ inbox'[v] = Append(inbox[v], RefreshEv)
                 /\ ReadyDelivered(v)
            /\ Handles(v, "chats") => chats'[v] = Head(inbox[v]).list
         ]_vars
    /\ \A v \in Viewers :
          (connected[v] /\ \E i \in 1..Len(inbox[v]) : inbox[v][i] = RefreshEv)
          ~> (chats[v] = ChatList(waChats))

RequestKinds == {"get-chats", "get-messages"}

\* the step starts, resumes or ends the handler of a get-chats or
\* get-messages command of viewer v
RequestStep(v) ==
    \E t \in BagToSet(tasks) \cup BagToSet(tasks') :
       /\ t.kind \in RequestKinds /\ t.v = v
       /\ CopiesIn(t, tasks') # CopiesIn(t, tasks)

\* the step ends such a handler of v, and the handler has an answer: every
\* end of get-chats has one (the list, or the empty list on an error), an
\* end of get-messages has one unless getChatById / fetchMessages rejected
RequestAnswered(v, type) ==
    /\ \E t \in BagToSet(tasks) :
          /\ t.kind = "get-" \o type /\ t.v = v
          /\ CopiesIn(t, tasks') < CopiesIn(t, tasks)
          /\ type = "messages" /\ t.stage = "fetchMessages" => n'.fail = n.fail
    /\ ~ \E u \in BagToSet(tasks') :
            /\ u.kind = "get-" \o type /\ u.v = v
            /\ CopiesIn(u, tasks') > CopiesIn(u, tasks)

\* C20: a step of the handler of viewer v's get-chats or get-messages
\* command, whether its awaited calls resolve or reject, sends nothing to
\* any other viewer (no event, no log line); and the step that ends the
\* handler with an answer sends v, if still connected, exactly one event, of
\* the type asked for.
C20_AnsweredToRequesterOnly ==
    [][\A v \in Viewers :
         /\ RequestStep(v) =>
              \A w \in Viewers \ {v} :
                 inbox'[w] = inbox[w] /\ logs'[w] = logs[w]
         /\ \A type \in {"chats", "messages"} :
              (RequestAnswered(v, type) /\ connected[v]) =>
                 /\ Len(inbox'[v]) = Len(inbox[v]) + 1
                 /\ SubSeq(inbox'[v], 1, Len(inbox[v])) = inbox[v]
                 /\ inbox'[v][Len(inbox'[v])].type = type
      ]_vars

\* witness of C20: the acting viewer has been sent the history it asked
\* for, with the other viewer connected and sent nothing
C20_Witness ==
    /\ \A v \in Viewers : connected[v]
    /\ \E v \in Actors :
          /\ inbox[v] # <<>>
          /\ inbox[v][Len(inbox[v])].type = "messages"
          /\ seen[v].csConnected
    /\ \A w \in Viewers \ Actors : inbox[w] = <<>> /\ logs[w] = 0

\* the step is the catch of a send-message handler of viewer v: the
\* client.sendMessage of task t rejected
SendFails(t) ==
    /\ BagIn(t, tasks) /\ t.kind = "send-message"
    /\ CopiesIn(t, tasks') < CopiesIn(t, tasks)
    /\ n'.fail < n.fail

\* an entry that viewer v's page made for the send of task t
EntryOfSend(m, t) == m.fromMe /\ m.body = t.body /\ m.to = t.to

\* C21: when client.sendMessage rejects, the viewer that asked gets one more
\* 'log' line and nobody else does, no event (so no message_sent) is sent to
\* any viewer, and afterwards no viewer's message cache holds an entry for
\* the failed send.
C21_FailedSendLeavesNoTrace ==
    [][\A t \in BagToSet(tasks) : SendFails(t) =>
         /\ logs' = [logs EXCEPT ![t.v] = IF connected[t.v] THEN @ + 1 ELSE @]
         /\ inbox' = inbox
         /\ \A v \in Viewers, c \in Chats :
               Where(messages'[v][c], LAMBDA m : EntryOfSend(m, t)) = {}
      ]_vars

\* the step is a run of the platform 'message_ack' listener
AckStep == n'.ack < n.ack

\* the ids of a sequence of messages, in order
Ids(seq) == [i \in 1..Len(seq) |-> seq[i].id]

\* C22: once a viewer has handled the update of a platform message_ack
\* (msgId, chatId, ack), every message it stores under chatId with that id
\* has ack level ack; when it stores none with that id its cache is
\* unchanged.
C22_AckReachesTheCache ==
    [][\A v \in Viewers :
         Handles(v, "message_ack_update") =>
           LET ev == Head(inbox[v])
               hit == Where(messages[v][ev.chatId], LAMBDA m : m.id = ev.msgId)
           IN /\ \A i \in hit : messages'[v][ev.chatId][i].ack = ev.ack
              /\ hit = {} => messages'[v] = messages[v]
      ]_vars

\* C28: a platform message_ack sends every connected viewer one event, a
\* message_ack_update (no 'message', no 'message_sent'), and changes no
\* cache; and the viewer that handles the update keeps, in every chat, the
\* messages it holds, as many and in the same order.
C28_AckCreatesNoMessage ==
    [][\A v \in Viewers :
         /\ AckStep =>
              /\ messages'[v] = messages[v]
              /\ connected[v] =>
                   /\ Len(inbox'[v]) = Len(inbox[v]) + 1
                   /\ SubSeq(inbox'[v], 1, Len(inbox[v])) = inbox[v]
                   /\ inbox'[v][Len(inbox'[v])].type = "message_ack_update"
         /\ Handles(v, "message_ack_update") =>
              \A c \in Chats : Ids(messages'[v][c]) = Ids(messages[v][c])
      ]_vars

\* witness of C28: the account's message is in a viewer's cache, its ack was
\* reported and the viewer has handled the update
C28_Witness ==
    /\ n.ack < MaxAcks
    /\ \E v \in Viewers, c \in Chats :
          /\ inbox[v] = <<>>
          /\ \E i \in 1..Len(messages[v][c]) :
                \E j \in 1..Len(waHistory[c]) :
                   messages[v][c][i].id = waHistory[c][j].id
                   /\ waHistory[c][j].ack > 0

\* the runs of the 'message' listener suspended at msg.downloadMedia()
MessageTasks(bag) == {t \in BagToSet(bag) : t.kind = "message"}

\* the step resumes and ends the run t of the 'message' listener
DownloadSettles(t) ==
    /\ t \in MessageTasks(tasks)
    /\ CopiesIn(t, tasks') < CopiesIn(t, tasks)

\* box1 is box0 with the one event ev behind it
Gains(box0, box1, ev) == box1 = Append(box0, ev)

\* C23: a platform 'message' event either is broadcast in the step of the
\* event, once, to every connected viewer, or (part_003, media reported)
\* leaves exactly one run waiting for the download and sends nothing yet;
\* the step in which the download settles broadcasts that message once to
\* every connected viewer, with the media when the download succeeded and
\* with media = null when it failed; no other step sends a 'message' event.
C23_OneBroadcastPerMessage ==
    [][\A v \in Viewers :
         /\ MessageStep =>
              LET c == CHOOSE d \in Chats : waHistory'[d] # waHistory[d]
                  msg == waHistory'[c][Len(waHistory'[c])]
                  waiting == {t \in MessageTasks(tasks') : t.msg = msg}
              IN IF waiting # {}
                 THEN /\ msg.hasMedia
                      /\ \A t \in waiting :
                            /\ t \notin MessageTasks(tasks)
                            /\ CopiesIn(t, tasks') = 1
                      /\ Cardinality(waiting) = 1
                      /\ inbox'[v] = inbox[v]
                 ELSE connected[v] =>
                        Gains(inbox[v], inbox'[v],
                              [type |-> "message", msg |-> Formatted(msg, "none")])
         /\ \A t \in MessageTasks(tasks) :
               (DownloadSettles(t) /\ connected[v]) =>
                  Gains(inbox[v], inbox'[v],
                        [type |-> "message",
                         msg |-> Formatted(t.msg, IF n'.fail = n.fail
                                                  THEN "media" ELSE "none")])
         /\ MessageTasks(tasks') # MessageTasks(tasks) =>
               MessageStep \/ \E t \in MessageTasks(tasks) : DownloadSettles(t)
         /\ (~MessageStep /\ ~ \E t \in MessageTasks(tasks) : DownloadSettles(t)) =>
               LiveCount(inbox'[v]) <= LiveCount(inbox[v])
      ]_vars

\* witness of C23: a viewer holds the two messages of a chat, for both of
\* which the platform reported media: one with its media, the other, whose
\* download failed, without
C23_Witness ==
    \E v \in Viewers, c \in Chats :
       /\ connected[v] /\ inbox[v] = <<>> /\ tasks = EmptyBag
       /\ Len(waHistory[c]) = 2
       /\ \A i \in 1..2 : waHistory[c][i].hasMedia
       /\ Ids(messages[v][c]) = Ids(waHistory[c])
       /\ {messages[v][c][i].media : i \in 1..2} = {"media", "none"}

\* C24: the entry a viewer makes for an inbound 'message' event goes to the
\* sequence of the message's counterpart (from, or to when the account sent
\* it) and to no other, whatever chat the viewer has open.
C24_StoredUnderCounterpart ==
    [][\A v \in Viewers :
         Handles(v, "message") =>
           LET m == Head(inbox[v]).msg IN
           \A c \in Chats :
              Len(messages'[v][c]) =
                 Len(messages[v][c]) + IF c = Counterpart(m) THEN 1 ELSE 0
      ]_vars

\* the step is a run of the "subscribe" listener
SubscribeStep == Len(subscriptions') > Len(subscriptions)

\* C25: no step, the closing of a socket and the failure of a delivery
\* included, takes an entry off the registry or changes one: the registry
\* only grows at its end; a registration adds exactly one entry and sends
\* one 'log' line to one viewer, the one that registered (a connected one),
\* and no other event to anybody.
C25_RegistryOnlyGrows ==
    [][/\ Len(subscriptions') >= Len(subscriptions)
       /\ SubSeq(subscriptions', 1, Len(subscriptions)) = subscriptions
       /\ SubscribeStep =>
            /\ Len(subscriptions') = Len(subscriptions) + 1
            /\ inbox' = inbox
            /\ \E v \in Viewers :
                  connected[v] /\ logs' = [logs EXCEPT ![v] = @ + 1]
       /\ ~SubscribeStep => logs' = logs
      ]_vars

\* witness of C25: the registry is full, a delivery to one of its entries
\* failed, and the socket of a viewer has closed
C25_Witness ==
    /\ Len(subscriptions) = MaxSubs
    /\ \E p \in pushes : p.state = "failed" /\ p.sub = subscriptions[p.pos]
    /\ \E v \in Viewers : ~connected[v] /\ logs[v] > 0

\* the step that resumes the suspended handler t, its awaited call resolved
Resumes(t) ==
    CASE t.kind = "check-session" -> CheckSessionDone(t, TRUE)
      [] t.kind = "get-chats" /\ t.stage = "getState" -> GetChatsStateDone(t, TRUE)
      [] t.kind = "get-chats" /\ t.stage = "getChats" -> GetChatsDone(t, TRUE)
      [] t.kind = "send-message" -> SendMessageDone(t, TRUE)
      [] t.kind = "get-messages" /\ t.stage = "fetchMessages" ->
           GetMessagesFetched(t, TRUE)
      [] t.kind = "get-messages" /\ t.stage = "downloadMedia" ->
           GetMessagesMediaDone(t, {})
      [] t.kind = "message" -> MessageMediaDone(t, TRUE)
      [] t.kind = "ready" -> ReadyGetChatsDone(TRUE)

\* C26: whatever handlers are suspended at an awaited platform call, each
\* of them can be resumed as soon as its own call resolves, a viewer that is
\* not connected can connect and have its commands taken, and the platform
\* client can deliver a message: none of them waits for a call of another.
C26_PendingCallsBlockNothing ==
    tasks # EmptyBag =>
       /\ \A t \in BagToSet(tasks) : ENABLED Resumes(t)
       /\ \A v \in Viewers \ Actors :
             (~connected[v] /\ n.conn > 0) => ENABLED Connect(v)
       /\ n.msg > 0 => ENABLED ClientOnMessage("c1", FALSE, FALSE)

\* witness of C26: handlers of two viewers are suspended at the same time,
\* and so is a run of the 'message' listener
C26_Witness ==
    /\ \E t, u \in BagToSet(tasks) :
          /\ t.kind \in {"get-messages", "send-message"} /\ t.v \in Actors
          /\ u.kind \in {"check-session", "get-chats"} /\ u.v \in Viewers \ Actors
    /\ \E t \in BagToSet(tasks) : t.kind = "message"

\* the 'messages' events the step puts in the queue of viewer v
NewHistoryEvents(v) ==
    {inbox'[v][i] : i \in {j \in 1..Len(inbox'[v]) :
                             /\ inbox'[v][j].type = "messages"
                             /\ j > Len(inbox[v])}}

\* C27: a 'messages' event sent for chatId holds at most 50 (server.js) or
\* 20 (part_003, part_004) messages, the last ones of the chat in the
\* platform's order, whichever media downloads failed; the viewer that
\* handles it holds exactly the event's list under chatId afterwards and
\* what it held under every other chat.
C27_BoundedOrderedHistory ==
    [][\A v \in Viewers :
         /\ \A ev \in NewHistoryEvents(v) :
               LET limit == IF server = "server.js" THEN 50 ELSE 20
                   all == waHistory[ev.chatId]
                   from == IF Len(all) > limit THEN Len(all) - limit ELSE 0
               IN /\ Len(ev.messages) <= limit
                  /\ Len(ev.messages) = Len(all) - from
                  /\ \A i \in 1..Len(ev.messages) :
                        ev.messages[i].id = all[from + i].id
         /\ Handles(v, "messages") =>
               LET ev == Head(inbox[v]) IN
               /\ messages'[v][ev.chatId] = ev.messages
               /\ \A c \in Chats \ {ev.chatId} : messages'[v][c] = messages[v][c]
      ]_vars

\* witness of C27: a viewer holds the short chat whole and, of the long one,
\* as many messages as the limit allows, fewer than the chat has, one of them
\* with media and one whose media failed to download
C27_Witness ==
    \E v \in Viewers :
       /\ inbox[v] = <<>>
       /\ Ids(messages[v]["c2"]) = Ids(waHistory["c2"])
       /\ Len(messages[v]["c1"]) = FetchLimit
       /\ Len(messages[v]["c1"]) < Len(waHistory["c1"])
       /\ server # "server.js" =>
             {messages[v]["c1"][i].media : i \in FetchLimit - 1 .. FetchLimit}
                = {"media", "none"}

\* C29: no step leads to a state in which a viewer has both the ready flag
\* and the error flag set, and the only step that takes the ready flag of a
\* viewer away is the reload of its page.
C29_OnePhaseNoWayBack ==
    [][\A v \in Viewers :
         /\ ~(isReady'[v] /\ hasError'[v])
         /\ (isReady[v] /\ ~isReady'[v]) => RetryStep(v)
      ]_vars

(***************************************************************************)
(* check-session and the one-shot 'ready' listeners it registers           *)
(***************************************************************************)

\* the server starts while viewers come and go: sockets connect and close,
\* their check-session is answered, and the platform client becomes ready.
\* What the server sent stays in the queues of the sockets: the pages'
\* listeners are not part of this specification.
NextSession ==
    \/ ClientInitialize
    \/ ClientOnReady
    \/ \E ok \in BOOLEAN : ReadyGetChatsDone(ok)
    \/ \E v \in Viewers : Connect(v)
    \/ \E v \in Viewers : Disconnect(v)
    \/ \E t \in BagToSet(tasks), ok \in BOOLEAN : CheckSessionDone(t, ok)
    \/ \E t \in BagToSet(tasks), ok \in BOOLEAN : GetChatsStateDone(t, ok)
    \/ \E t \in BagToSet(tasks), ok \in BOOLEAN : GetChatsDone(t, ok)

InitSession ==
    InitBoot(Viewers, {}, [msg |-> 0, send |-> 0, sel |-> 0, qr |-> 0,
                           fail |-> MaxFails, conn |-> MaxSessions,
                           disc |-> 0, ack |-> 0])

SpecSession == InitSession /\ [][NextSession]_vars

\* the session_exists events of a queue, in order
SessionAnswers(seq) ==
    LET RECURSIVE Pick(_)
        Pick(q) == IF q = <<>> THEN <<>>
                   ELSE IF Head(q).type = "session_exists"
                   THEN <<Head(q).exists>> \o Pick(Tail(q))
                   ELSE Pick(Tail(q))
    IN Pick(seq)

\* the step in which the getState() of the check-session t settles
CheckSessionStep(t) ==
    /\ BagIn(t, tasks) /\ t.kind = "check-session"
    /\ CopiesIn(t, tasks') < CopiesIn(t, tasks)
    /\ connected' = connected

\* the step in which socket v connects and sends its check-session
ConnectStep(v) == ~connected[v] /\ connected'[v]

\* the step in which socket v closes
DisconnectStep(v) == connected[v] /\ ~connected'[v]

\* the step of the platform's 'ready' event
PlatformReadyStep == waState # "CONNECTED" /\ waState' = "CONNECTED"

\* C30: on the servers that listen for check-session, every request gets
\* exactly one session_exists value at once, sent to the socket that asked
\* and to no other: false in the handler itself while the client has no page,
\* else when getState() settles, true only if the state is CONNECTED.  A
\* false given because the state is not CONNECTED registers one 'ready'
\* listener; the next 'ready' sends each connected socket the 'ready' event
\* followed by one session_exists true for each of its listeners, removes
\* every listener, those of closed sockets included, and writes nothing to
\* the console; nothing else sends a session_exists event.
C30_CheckSessionAnswers ==
    [][server # "server.js" =>
         /\ \A v \in Viewers : ConnectStep(v) =>
               /\ SessionAnswers(inbox'[v]) = IF pupPage THEN <<>> ELSE <<FALSE>>
               /\ CopiesIn([kind |-> "check-session", stage |-> "getState",
                            v |-> v], tasks') = IF pupPage THEN 1 ELSE 0
               /\ onceReady' = onceReady
         /\ \A t \in BagToSet(tasks) : CheckSessionStep(t) =>
               /\ \A w \in Viewers \ {t.v} : inbox'[w] = inbox[w]
               /\ console' = console
               /\ IF t.v \in Viewers
                  THEN \E b, l \in BOOLEAN :
                         /\ inbox'[t.v] = Append(inbox[t.v], SessionExists(b, l))
                         /\ b <=> (waState = "CONNECTED" /\ n'.fail = n.fail)
                  ELSE inbox' = inbox
               /\ onceReady' =
                    [onceReady EXCEPT ![t.v] =
                        IF waState # "CONNECTED" /\ n'.fail = n.fail
                        THEN @ + 1 ELSE @]
         /\ PlatformReadyStep =>
               /\ \A v \in Viewers :
                     inbox'[v] =
                       IF connected[v]
                       THEN inbox[v] \o <<[type |-> "ready"]>>
                              \o [i \in 1..onceReady[v] |-> SessionExists(TRUE, FALSE)]
                       ELSE inbox[v]
               /\ onceReady' = [s \in Sockets |-> 0]
               /\ console' = console
         /\ \A v \in Viewers : DisconnectStep(v) =>
               /\ onceReady'[v] = 0
               /\ onceReady'[Gone] = onceReady[Gone] + onceReady[v]
               /\ console' = console
         /\ \A v \in Viewers :
               (\/ Len(SessionAnswers(inbox'[v])) > Len(SessionAnswers(inbox[v]))
                \/ onceReady'[v] > onceReady[v]) =>
                  \/ ConnectStep(v)
                  \/ PlatformReadyStep
                  \/ \E t \in BagToSet(tasks) : CheckSessionStep(t) /\ t.v = v
      ]_vars

\* witness of C30: one viewer holds, unread, the false answer to its request,
\* then 'ready', then the true of its listener; the other viewer's socket
\* connected and closed, no listener is left and the console is empty
C30_Witness ==
    \E v, w \in Viewers :
       /\ v # w
       /\ server # "server.js"
       /\ connected[v] /\ ~connected[w]
       /\ inbox[v] = <<SessionExists(FALSE, FALSE), [type |-> "ready"],
                       SessionExists(TRUE, FALSE)>>
       /\ n.conn = 0
       /\ waState = "CONNECTED"
       /\ onceReady = [s \in Sockets |-> 0]
       /\ console = {}

\* C31: when a viewer applies a 'messages' response for chat c, every
\* message of c that the viewer had appended from a live 'message' event is
\* still in its sequence for c afterwards.
C31_HistoryKeepsLiveMessages ==
    [][\A v \in Viewers :
         Handles(v, "messages") =>
            LET c == Head(inbox[v]).chatId IN
            \A i \in 1..Len(messages[v][c]) :
               (IsLive(messages[v][c][i]) /\ Counterpart(messages[v][c][i]) = c)
               => \E j \in 1..Len(messages'[v][c]) :
                     messages'[v][c][j].id = messages[v][c][i].id
      ]_vars

\* the 'ready' refresh is done: its getChats() has settled
RefreshDone == ~BagIn([kind |-> "ready", stage |-> "getChats"], tasks)

\* C32: on the servers that answer get-chats, a connected viewer for which
\* the platform is CONNECTED, the 'ready' refresh is done, every check-session
\* and get-chats of its own is answered and every event sent to it is
\* handled, holds the platform's chat list.
C32_ChatListConverges ==
    \A v \in Viewers :
       (/\ server # "server.js"
        /\ connected[v] /\ waState = "CONNECTED"
        /\ RefreshDone /\ Quiet(v))
       => chats[v] = ChatList(waChats)

(***************************************************************************)
(* What the 'message' listener of a viewer leaves alone                    *)
(***************************************************************************)

\* inbound traffic with every viewer connected: platform messages without
\* media reach all viewers while one of them selects chats and fetches their
\* history
NextFrame ==
    \/ \E c \in Chats, fromMe \in BOOLEAN : ClientOnMessage(c, fromMe, FALSE)
    \/ \E t \in BagToSet(tasks), ok \in BOOLEAN : GetMessagesFetched(t, ok)
    \/ \E v \in Viewers : ViewerRecv(v)
    \/ \E v \in Viewers, c \in Chats : SelectChat(v, c)
    \/ \E v \in Viewers : RunEffects(v)

InitFrame ==
    InitReady(Viewers, [msg |-> MaxPushMsgs, send |-> 0, sel |-> MaxSelects,
                        qr |-> 0, fail |-> MaxFails, conn |-> 0, disc |-> 0,
                        ack |-> 0])

SpecFrame == InitFrame /\ [][NextFrame]_vars

C34_TimeoutOnlyBeforeReadyOrQr ==
    [][\A v \in Viewers :
         /\ TimeoutFires(v) => (~isReady[v] /\ qrCode[v] = 0)
         /\ (\/ ~isReady[v] /\ isReady'[v]
             \/ qrCode'[v] # 0 /\ qrCode'[v] # qrCode[v])
            => timer'[v] # "armed"
      ]_vars

\* witness of C34: a viewer of page.tsx whose timeout was set has handled a
\* qr event and then became ready; its timeout was cleared, never fired, and
\* the error flag is not set
C34_Witness ==
    \E v \in Viewers :
       /\ ui = "page.tsx"
       /\ timer[v] = "cleared"
       /\ seen[v].qr
       /\ qrCode[v] # 0
       /\ isReady[v]
       /\ ~hasError[v]
       /\ ~ENABLED Timeout(v)
====
